---- MODULE Spec2Model ----
(***************************************************************************)
(* A model of the deck optimiser of the fantasy.top deck builder content  *)
(* script (class FantasyDeckBuilder): the scoring of the pool, the         *)
(* per-star pruning, the memoised exact search with its relaxed targets    *)
(* and the greedy fallback; the score estimators of the content script    *)
(* and of background.js; the message and button handlers as they           *)
(* interleave at their awaits; the injection of the custom button.         *)
(*                                                                         *)
(* Conventions.  A JS array is a sequence; a JS index i is position i+1.   *)
(* A selection (an array of card objects of the candidate array) is the    *)
(* sequence of the positions of those objects in the candidate array, so   *)
(* that object identity is position equality.  cardId is a natural number, *)
(* 0 standing for "undefined" (the only falsy cardId the code can meet).   *)
(* expectedScore is a non-negative number, held exactly as an integer      *)
(* count of a fixed unit.  null is the record NoResult (found = FALSE).    *)
(***************************************************************************)
EXTENDS Integers, Sequences, FiniteSets, TLC

(* ------------------------------ bounds -------------------------------- *)
MaxCards == 4
MaxStars == 3
MaxScore == 2
MaxTarget == 5
MaxCount == 3

(* ------------------------- program constants -------------------------- *)
GREEDY_CONSIDER == 120
MAX_ADJUSTMENT == 2

(* ------------------------------ helpers ------------------------------- *)
RECURSIVE SumSeq(_)
SumSeq(s) == IF s = <<>> THEN 0 ELSE Head(s) + SumSeq(Tail(s))

Min2(a, b) == IF a <= b THEN a ELSE b

Range(s) == {s[i] : i \in DOMAIN s}

\* [...].sort((a, b) => a - b) on numbers: ascending, by insertion.
RECURSIVE InsertAsc(_, _)
InsertAsc(x, s) ==
  IF s = <<>> THEN <<x>>
  ELSE IF x < Head(s) THEN <<x>> \o s
  ELSE <<Head(s)>> \o InsertAsc(x, Tail(s))

RECURSIVE SortAsc(_)
SortAsc(s) == IF s = <<>> THEN <<>> ELSE InsertAsc(Head(s), SortAsc(Tail(s)))

StarsOf(cs) == [i \in DOMAIN cs |-> cs[i].stars]

\* result.reduce((sum, c) => sum + c.stars, 0)
SelectionStars(cs, sel) == SumSeq([i \in DOMAIN sel |-> cs[sel[i]].stars])

\* result.reduce((sum, c) => sum + (c.expectedScore ?? 0), 0)
SelectionScore(cs, sel) == SumSeq([i \in DOMAIN sel |-> cs[sel[i]].expectedScore])

\* truthiness of card.cardId
HasCardId(card) == card.cardId # 0

NoResult == [found |-> FALSE, selection |-> <<>>, totalScore |-> 0]

Found(sel, score) == [found |-> TRUE, selection |-> sel, totalScore |-> score]

(* ----------------------- findOptimalCombination ------------------------ *)
\* sortedStarsFromIndex[index]: the stars of cards.slice(index), ascending.
SortedStarsFromIndex(cs, index) ==
  SortAsc([p \in 1..(Len(cs) - index) |-> cs[index + p].stars])

\* sorted.slice(0, k).reduce(+)
MinPossible(sorted, k) == SumSeq(SubSeq(sorted, 1, k))

\* MaxPossible taken from the cheap end of the suffix.
MaxPossible_FromFront(sorted, k) == SumSeq(SubSeq(sorted, 1, k))

\* sorted.slice(-k).reduce(+)
MaxPossible(sorted, k) == SumSeq(SubSeq(sorted, Len(sorted) - k + 1, Len(sorted)))

\* The feasibility bound of solve: TRUE when the state is pruned.
Pruned(sorted, remainingStars, k) ==
  \/ k > Len(sorted)
  \/ remainingStars < MinPossible(sorted, k)
  \/ remainingStars > MaxPossible(sorted, k)

\* The include branch of solve is taken for this card.
CanInclude(card, remainingStars) ==
  card.stars <= remainingStars /\ HasCardId(card)

\* SkipWins with a skip branch that also replaces an equal best.
SkipWins_OnTies(skip, best) ==
  skip.found /\ (~best.found \/ skip.totalScore >= best.totalScore)

\* The skip branch replaces the current best.
SkipWins(skip, best) ==
  skip.found /\ (~best.found \/ skip.totalScore > best.totalScore)

\* MemoKey without the number of cards still to pick.
MemoKey_NoCount(index, remainingStars, remainingCards) ==
  <<index, remainingStars, 0>>

\* const key = `${index},${remainingStars},${remainingCards}`
MemoKey(index, remainingStars, remainingCards) ==
  <<index, remainingStars, remainingCards>>

\* solve(index, remainingStars, remainingCards) with the memo map threaded
\* through the recursion: the value is [res, memo] after the call.
RECURSIVE solve(_, _, _, _, _)
solve(cs, memo, index, remainingStars, remainingCards) ==
  IF remainingCards = 0 /\ remainingStars = 0
  THEN [res |-> Found(<<>>, 0), memo |-> memo]
  ELSE IF remainingCards = 0 \/ index >= Len(cs) \/ remainingStars < 0
  THEN [res |-> NoResult, memo |-> memo]
  ELSE IF Pruned(SortedStarsFromIndex(cs, index), remainingStars, remainingCards)
  THEN [res |-> NoResult, memo |-> memo]
  ELSE LET key == MemoKey(index, remainingStars, remainingCards) IN
    IF key \in DOMAIN memo
    THEN [res |-> memo[key], memo |-> memo]
    ELSE
      LET card == cs[index + 1]
          sub  == IF CanInclude(card, remainingStars)
                  THEN solve(cs, memo, index + 1,
                             remainingStars - card.stars, remainingCards - 1)
                  ELSE [res |-> NoResult, memo |-> memo]
          best == IF sub.res.found
                  THEN Found(<<index + 1>> \o sub.res.selection,
                             card.expectedScore + sub.res.totalScore)
                  ELSE NoResult
          skip == solve(cs, sub.memo, index + 1, remainingStars, remainingCards)
          out  == IF SkipWins(skip.res, best) THEN skip.res ELSE best
      IN [res |-> out, memo |-> (key :> out) @@ skip.memo]

(* ----------------------- findClosestCombination ------------------------ *)
Infinity == -1

Abs(x) == IF x < 0 THEN -x ELSE x

\* starDiff < bestStarDiff, bestStarDiff possibly Infinity
StarDiffLess(starDiff, bestStarDiff) ==
  bestStarDiff = Infinity \/ starDiff < bestStarDiff

\* const consider = Math.min(cards.length, 120)
Consider(cs) == Min2(Len(cs), GREEDY_CONSIDER)

\* GreedySkips without the check of the running total against the target.
GreedySkips_NoCap(card, totalStars, usedCardIds, targetStars) ==
  HasCardId(card) /\ card.cardId \in usedCardIds

\* The card at JS index j is skipped by the inner loop.
GreedySkips(card, totalStars, usedCardIds, targetStars) ==
  \/ (HasCardId(card) /\ card.cardId \in usedCardIds)
  \/ totalStars + card.stars > targetStars

\* isBetter of the inner loop
IsBetter(expectedScore, starDiff, best) ==
  \/ expectedScore > best.bestScore
  \/ (expectedScore = best.bestScore /\ StarDiffLess(starDiff, best.bestStarDiff))

NoBest == [bestIndex |-> -1, bestScore |-> -1, bestStarDiff |-> Infinity]

\* The inner loop "for (let j = 0; j < consider; j++)" from index j on.
RECURSIVE GreedyScan(_, _, _, _, _, _, _)
GreedyScan(cs, j, totalStars, usedCardIds, cardsRemaining, targetStars, best) ==
  IF j >= Consider(cs) THEN best
  ELSE
    LET card == cs[j + 1]
        newTotal == totalStars + card.stars
        starDiff == IF cardsRemaining = 0 THEN Abs(targetStars - newTotal) ELSE 0
        next == IF GreedySkips(card, totalStars, usedCardIds, targetStars) THEN best
                ELSE IF IsBetter(card.expectedScore, starDiff, best)
                THEN [bestIndex |-> j, bestScore |-> card.expectedScore,
                      bestStarDiff |-> starDiff]
                ELSE best
    IN GreedyScan(cs, j + 1, totalStars, usedCardIds, cardsRemaining, targetStars, next)

\* One pass of the outer loop body for a slot: the best card of the scan.
GreedyPick(cs, slot, g, targetStars, targetCount) ==
  GreedyScan(cs, 0, g.totalStars, g.usedCardIds,
             targetCount - slot - 1, targetStars, NoBest)

\* "if (bestCard) { selected.push(...); totalStars += ...; usedCardIds.add(...) }"
GreedyTake(cs, g, bestIndex) ==
  LET card == cs[bestIndex + 1] IN
  [selected |-> Append(g.selected, bestIndex + 1),
   totalStars |-> g.totalStars + card.stars,
   usedCardIds |-> IF HasCardId(card)
                   THEN g.usedCardIds \cup {card.cardId}
                   ELSE g.usedCardIds]

\* The outer loop from slot on; g = [selected, totalStars, usedCardIds].
RECURSIVE GreedySlots(_, _, _, _, _)
GreedySlots(cs, slot, g, targetStars, targetCount) ==
  IF slot >= targetCount THEN g
  ELSE
    LET b == GreedyPick(cs, slot, g, targetStars, targetCount)
    IN IF b.bestIndex < 0 THEN g
       ELSE GreedySlots(cs, slot + 1, GreedyTake(cs, g, b.bestIndex),
                        targetStars, targetCount)

GreedyStart == [selected |-> <<>>, totalStars |-> 0, usedCardIds |-> {}]

\* GreedyReturn without the length check: whatever was selected is returned.
GreedyReturn_Partial(cs, g, targetCount) ==
  Found(g.selected, SelectionScore(cs, g.selected))

\* "if (selected.length < targetCount) return null; ... return selected"
GreedyReturn(cs, g, targetCount) ==
  IF Len(g.selected) < targetCount THEN NoResult
  ELSE Found(g.selected, SelectionScore(cs, g.selected))

\* findClosestCombination(cards, targetStars, targetCount): selected or null
findClosestCombination(cs, targetStars, targetCount) ==
  GreedyReturn(cs, GreedySlots(cs, 0, GreedyStart, targetStars, targetCount),
               targetCount)

\* The hard cap of findOptimalCombination: a result above the target is dropped.
HardCap(cs, r, targetStars) ==
  IF r.found /\ SelectionStars(cs, r.selection) > targetStars THEN NoResult ELSE r

\* AdjustedTarget with the sign of the adjustment slipped.
AdjustedTarget_Up(targetStars, adj) == targetStars + adj

\* The target of the relaxed attempt number adjustment.
AdjustedTarget(targetStars, adj) == targetStars - adj

EmptyMemo == [k \in {} |-> NoResult]

\* findOptimalCombination(cards, targetStars, targetCount) as one value.
RECURSIVE RelaxLoop(_, _, _, _, _)
RelaxLoop(cs, m, adj, T, K) ==
  IF adj > MAX_ADJUSTMENT \/ AdjustedTarget(T, adj) < 0 THEN NoResult
  ELSE LET r == solve(cs, m, 0, AdjustedTarget(T, adj), K) IN
       IF r.res.found THEN r.res ELSE RelaxLoop(cs, r.memo, adj + 1, T, K)

findOptimalCombination(cs, T, K) ==
  LET exact == solve(cs, EmptyMemo, 0, T, K)
      dp == IF exact.res.found THEN exact.res ELSE RelaxLoop(cs, exact.memo, 1, T, K)
      capped == HardCap(cs, dp, T)
  IN IF capped.found THEN capped ELSE findClosestCombination(cs, T, K)

(* ------------------------- candidate lists ----------------------------- *)
\* b.expectedScorePerStar - a.expectedScorePerStar <= 0 for a before b:
\* score/stars compared exactly, stars > 0.
PerStarGeq(a, b) == a.expectedScore * b.stars >= b.expectedScore * a.stars

SortedByPerStar(cs) ==
  \A i \in 1..(Len(cs) - 1) : PerStarGeq(cs[i], cs[i + 1])

Card(id, st, sc) == [cardId |-> id, stars |-> st, expectedScore |-> sc]

\* The lists findBestDeck can hand to the search: non-empty, stars >= 1,
\* scores >= 0, sorted by score per star, the cards carrying distinct card
\* ids (after filterCardsByPortfolio) or none at all (empty portfolio).
CandidateLists ==
  { cs \in UNION { { [i \in 1..n |-> Card(IF withIds THEN i ELSE 0, f[i][1], f[i][2])]
                     : f \in [1..n -> (1..MaxStars) \X (0..MaxScore)] }
                   : n \in 1..MaxCards, withIds \in BOOLEAN } :
      SortedByPerStar(cs) }

\* The end-to-end instance: costs 1,1,2,2,3,3,4,4,5,5 with matching scores.
ExampleCosts == <<1, 1, 2, 2, 3, 3, 4, 4, 5, 5>>
ExampleCards(withIds) ==
  [i \in 1..Len(ExampleCosts) |->
     Card(IF withIds THEN i ELSE 0, ExampleCosts[i], ExampleCosts[i])]

\* A list with two cheap cards and one dear card of the best score, all with
\* card ids, in the order findBestDeck gives it (score per star descending).
DearCardList == <<Card(1, 1, 1), Card(2, 1, 1), Card(3, 5, 2)>>
TOURNAMENT_STARS == 19
TOURNAMENT_COUNT == 5

(* --------------------------- calculateScore --------------------------- *)
\* A score is a rational number [n, d] (d > 0), exact where JS rounds to a
\* double.  alpha and the weights are held in tenths and thousandths.
Rat(n, d) == [n |-> n, d |-> d]

RatLeq(a, b) == a.n * b.d <= b.n * a.d

RatEq(a, b) == a.n * b.d = b.n * a.d

\* scores.slice(0, n)
SliceTo(s, n) == SubSeq(s, 1, Min2(n, Len(s)))

averageScore(scores) ==
  IF Len(scores) = 0 THEN Rat(0, 1) ELSE Rat(SumSeq(scores), Len(scores))

averageExcludingOutliers(scores, numToExclude) ==
  IF Len(scores) <= numToExclude THEN averageScore(scores)
  ELSE LET sorted == SortAsc(scores)
           toRemoveEachEnd == numToExclude \div 2
           remaining == SubSeq(sorted, toRemoveEachEnd + 1,
                               Len(sorted) - (numToExclude - toRemoveEachEnd))
       IN averageScore(remaining)

\* const weights = [0.3, 0.2, 0.175, 0.15, 0.125, 0.05], in thousandths
WEIGHTS == <<300, 200, 175, 150, 125, 50>>
WEIGHTED_WINDOW == 5

\* The weighted sum running over all six weights, the total weight over five.
weightedScore_SixTerms(scores) ==
  IF Len(scores) = 0 THEN Rat(0, 1)
  ELSE LET m == Min2(Len(scores), WEIGHTED_WINDOW)
           k == Min2(Len(scores), Len(WEIGHTS))
       IN Rat(SumSeq([i \in 1..k |-> scores[i] * WEIGHTS[i]]),
              SumSeq([i \in 1..m |-> WEIGHTS[i]]))

weightedScore(scores) ==
  IF Len(scores) = 0 THEN Rat(0, 1)
  ELSE LET m == Min2(Len(scores), WEIGHTED_WINDOW) IN
       Rat(SumSeq([i \in 1..m |-> scores[i] * WEIGHTS[i]]),
           SumSeq([i \in 1..m |-> WEIGHTS[i]]))

consistencyFloor(scores) ==
  IF Len(scores) = 0 THEN Rat(0, 1)
  ELSE Rat(CHOOSE x \in Range(scores) : \A y \in Range(scores) : x <= y, 1)

consistencyMedian(scores) ==
  IF Len(scores) = 0 THEN Rat(0, 1)
  ELSE LET sorted == SortAsc(scores)
           mid == Len(sorted) \div 2
       IN IF Len(sorted) % 2 = 0
          THEN Rat(sorted[mid] + sorted[mid + 1], 2)
          ELSE Rat(sorted[mid + 1], 1)

\* smoothed = alpha * scores[i] + (1 - alpha) * smoothed, alpha in tenths
RECURSIVE SmoothFrom(_, _, _, _)
SmoothFrom(scores, i, alphaTenths, smoothed) ==
  IF i > Len(scores) THEN smoothed
  ELSE SmoothFrom(scores, i + 1, alphaTenths,
                  Rat(alphaTenths * scores[i] * smoothed.d + (10 - alphaTenths) * smoothed.n,
                      10 * smoothed.d))

\* The loop stopping one observation early ("i < scores.length - 1").
exponentialSmoothing_DropLast(scores, alphaTenths) ==
  IF Len(scores) = 0 THEN Rat(0, 1)
  ELSE SmoothFrom(SubSeq(scores, 1, Len(scores) - 1), 2, alphaTenths,
                  Rat(scores[1], 1))

exponentialSmoothing(scores, alphaTenths) ==
  IF Len(scores) = 0 THEN Rat(0, 1)
  ELSE SmoothFrom(scores, 2, alphaTenths, Rat(scores[1], 1))

ALPHA_TENTHS == 3
RECENT_LONG == 6
RECENT_SHORT == 4

\* The default branch of the switch falling back to the six-week average.
calculateScore_DefaultAverage(hist, name, algorithm) ==
  IF name \notin DOMAIN hist \/ Len(hist[name]) = 0 THEN Rat(0, 1)
  ELSE LET historicalScores == hist[name] IN
    CASE algorithm = "recent4weeks" -> averageScore(SliceTo(historicalScores, RECENT_SHORT))
      [] algorithm = "recent6exclude1" ->
           averageExcludingOutliers(SliceTo(historicalScores, RECENT_LONG), 1)
      [] algorithm = "recent4exclude1" ->
           averageExcludingOutliers(SliceTo(historicalScores, RECENT_SHORT), 1)
      [] algorithm = "weighted" -> weightedScore(historicalScores)
      [] algorithm = "consistencyFloor" ->
           consistencyFloor(SliceTo(historicalScores, RECENT_LONG))
      [] algorithm = "consistencyMedian" ->
           consistencyMedian(SliceTo(historicalScores, RECENT_LONG))
      [] algorithm = "exponentialSmoothing" ->
           exponentialSmoothing(historicalScores, ALPHA_TENTHS)
      [] OTHER -> averageScore(SliceTo(historicalScores, RECENT_LONG))

\* calculateScore(name, algorithm) over this.historicalData
calculateScore(hist, name, algorithm) ==
  IF name \notin DOMAIN hist \/ Len(hist[name]) = 0 THEN Rat(0, 1)
  ELSE LET historicalScores == hist[name] IN
    CASE algorithm = "recent6weeks" -> averageScore(SliceTo(historicalScores, RECENT_LONG))
      [] algorithm = "recent4weeks" -> averageScore(SliceTo(historicalScores, RECENT_SHORT))
      [] algorithm = "recent6exclude1" ->
           averageExcludingOutliers(SliceTo(historicalScores, RECENT_LONG), 1)
      [] algorithm = "recent4exclude1" ->
           averageExcludingOutliers(SliceTo(historicalScores, RECENT_SHORT), 1)
      [] algorithm = "weighted" -> weightedScore(historicalScores)
      [] algorithm = "consistencyFloor" ->
           consistencyFloor(SliceTo(historicalScores, RECENT_LONG))
      [] algorithm = "consistencyMedian" ->
           consistencyMedian(SliceTo(historicalScores, RECENT_LONG))
      [] algorithm = "exponentialSmoothing" ->
           exponentialSmoothing(historicalScores, ALPHA_TENTHS)
      [] OTHER -> exponentialSmoothing(historicalScores, ALPHA_TENTHS)

(* ------------------- calculateScore of background.js ------------------ *)
\* background.js holds its own copies of the estimators.  averageScore,
\* weightedScore, consistencyFloor, consistencyMedian and exponentialSmoothing
\* are the same text as in the content script and are modelled by the
\* operators above; averageExcludingOutliers is written differently.

\* [...scores].sort((a, b) => b - a)
SortDesc(s) == [i \in 1..Len(s) |-> SortAsc(s)[Len(s) + 1 - i]]

\* sorted.slice(n)
SliceFrom(s, n) == SubSeq(s, Min2(n, Len(s)) + 1, Len(s))

bgAverageExcludingOutliers(scores, excludeCount) ==
  IF Len(scores) = 0 THEN Rat(0, 1)
  ELSE LET sorted == SortDesc(scores)
           trimmed == SliceFrom(sorted, excludeCount)
       IN IF Len(trimmed) = 0 THEN Rat(0, 1)
          ELSE Rat(SumSeq(trimmed), Len(trimmed))

\* calculateScore(historicalScores, algorithm) of background.js
bgCalculateScore(historicalScores, algorithm) ==
  IF Len(historicalScores) = 0 THEN Rat(0, 1)
  ELSE
    CASE algorithm = "recent6weeks" -> averageScore(SliceTo(historicalScores, RECENT_LONG))
      [] algorithm = "recent4weeks" -> averageScore(SliceTo(historicalScores, RECENT_SHORT))
      [] algorithm = "recent6exclude1" ->
           bgAverageExcludingOutliers(SliceTo(historicalScores, RECENT_LONG), 1)
      [] algorithm = "recent4exclude1" ->
           bgAverageExcludingOutliers(SliceTo(historicalScores, RECENT_SHORT), 1)
      [] algorithm = "weighted" -> weightedScore(historicalScores)
      [] algorithm = "consistencyFloor" ->
           consistencyFloor(SliceTo(historicalScores, RECENT_LONG))
      [] algorithm = "consistencyMedian" ->
           consistencyMedian(SliceTo(historicalScores, RECENT_LONG))
      [] algorithm = "exponentialSmoothing" ->
           exponentialSmoothing(historicalScores, ALPHA_TENTHS)
      [] OTHER -> exponentialSmoothing(historicalScores, ALPHA_TENTHS)

(* ----------------------------- findBestDeck --------------------------- *)
\* expectedScore is held in units of 1/ScoreUnit: exact for every algorithm
\* on the series of HistoryChoices (at most three observations).
ScoreUnit == 27 * 100

ToUnits(q) == (q.n * ScoreUnit) \div q.d

DEFAULT_TARGET_STARS == 19
DEFAULT_CARD_COUNT == 5
TOP_PER_BUCKET == 5
MAKESY == "0XMAKESY"

\* The override branch taken for the special hero only.
OverrideKeys_MakesyOnly(overrides) ==
  {overrides[i][1] : i \in DOMAIN overrides} \cap {"0XMAKESY"}

\* config.scoreOverrides is an object: its keys in insertion order with their
\* values, a sequence of <<key, value>> with distinct keys.
OverrideKeys(overrides) == {overrides[i][1] : i \in DOMAIN overrides}

OverrideOf(overrides, key) ==
  overrides[CHOOSE i \in DOMAIN overrides : overrides[i][1] = key][2]

\* `${config.algorithm}_${JSON.stringify(config.scoreOverrides || {})}`
getConfigHash(config) == <<config.algorithm, config.scoreOverrides>>

\* config.targetStars || 19 and config.cardCount || 5 (0 stands for absent)
TargetStarsOf(config) ==
  IF config.targetStars = 0 THEN DEFAULT_TARGET_STARS ELSE config.targetStars

TargetCountOf(config) ==
  IF config.cardCount = 0 THEN DEFAULT_CARD_COUNT ELSE config.cardCount

CacheKey(lookupKey, algorithm) == <<lookupKey, algorithm>>

\* The override applied flat to every hero.
EffectiveScore_Flat(lookupKey, stars, overrideScore) == overrideScore * ScoreUnit

\* The override branch: 0XMAKESY scores the override at one star only.
EffectiveScore(lookupKey, stars, overrideScore) ==
  IF lookupKey = MAKESY /\ stars # 1 THEN 0 ELSE overrideScore * ScoreUnit

\* The score cache storing the score rounded down to a whole number.
StoredScore_Floored(score) == (score \div ScoreUnit) * ScoreUnit

\* "this.scoreCache.set(cacheKey, score)": the value stored for a computed score
StoredScore(score) == score

\* The map callback on the card at position p with the score cache as it is
\* then: the scored card (the card's fields, expectedScore, and pos, the pool
\* position of the card object it was spread from), whether it is non-null
\* (kept), and the score cache after it.
ScoreCard(pool, p, hist, cache, config) ==
  LET card == pool[p]
      lookupKey == card.heroKey
      scored(sc) == [heroKey |-> card.heroKey, cardId |-> card.cardId,
                     stars |-> card.stars, expectedScore |-> sc, pos |-> p]
  IN IF lookupKey \in OverrideKeys(config.scoreOverrides)
     THEN [kept |-> TRUE,
           card |-> scored(EffectiveScore(lookupKey, card.stars,
                                          OverrideOf(config.scoreOverrides, lookupKey))),
           cache |-> cache]
     ELSE LET cacheKey == CacheKey(lookupKey, config.algorithm)
              hit == cacheKey \in DOMAIN cache
              score == IF hit THEN cache[cacheKey]
                       ELSE ToUnits(calculateScore(hist, lookupKey, config.algorithm))
          IN [kept |-> card.stars # 0,
              card |-> scored(score),
              cache |-> IF hit THEN cache ELSE (cacheKey :> StoredScore(score)) @@ cache]

\* this.cards.map(...) from position p on: the mapped values and the cache.
RECURSIVE MapScores(_, _, _, _, _, _)
MapScores(pool, p, hist, cache, config, mapped) ==
  IF p > Len(pool) THEN [mapped |-> mapped, cache |-> cache]
  ELSE LET m == ScoreCard(pool, p, hist, cache, config)
       IN MapScores(pool, p + 1, hist, m.cache, config, Append(mapped, m))

\* The score cache after the map over this.cards.
ScoreCacheAfter(pool, hist, cache, config) ==
  MapScores(pool, 1, hist, cache, config, <<>>).cache

\* The filter without its test of the stars.
KeepScored_AnyStars(m) == m.kept /\ m.card.expectedScore >= 0

\* .filter(card => card !== null && card.expectedScore >= 0 && card.stars > 0)
KeepScored(m) == m.kept /\ m.card.expectedScore >= 0 /\ m.card.stars > 0

RECURSIVE FilterScored(_)
FilterScored(ms) ==
  IF ms = <<>> THEN <<>>
  ELSE IF KeepScored(Head(ms)) THEN <<Head(ms).card>> \o FilterScored(Tail(ms))
  ELSE FilterScored(Tail(ms))

\* b.expectedScorePerStar - a.expectedScorePerStar < 0: a sorts before b
PerStarGreater(a, b) == a.expectedScore * b.stars > b.expectedScore * a.stars

\* An unstable sort: x goes before the elements it ties with.
RECURSIVE InsertByPerStar_Unstable(_, _)
InsertByPerStar_Unstable(x, s) ==
  IF s = <<>> THEN <<x>>
  ELSE IF ~PerStarGreater(Head(s), x) THEN <<x>> \o s
  ELSE <<Head(s)>> \o InsertByPerStar_Unstable(x, Tail(s))

\* Array.prototype.sort is stable: x goes after the elements it does not beat.
RECURSIVE InsertByPerStar(_, _)
InsertByPerStar(x, s) ==
  IF s = <<>> THEN <<x>>
  ELSE IF PerStarGreater(x, Head(s)) THEN <<x>> \o s
  ELSE <<Head(s)>> \o InsertByPerStar(x, Tail(s))

RECURSIVE SortFrom(_, _, _)
SortFrom(s, i, acc) ==
  IF i > Len(s) THEN acc ELSE SortFrom(s, i + 1, InsertByPerStar(s[i], acc))

\* cards.sort((a, b) => b.expectedScorePerStar - a.expectedScorePerStar)
SortByPerStar(s) == SortFrom(s, 1, <<>>)

\* scoredCards of the recompute branch
ScoreAndSort(pool, hist, cache, config) ==
  SortByPerStar(FilterScored(MapScores(pool, 1, hist, cache, config, <<>>).mapped))

\* The star values of the list in order of first appearance (Map key order).
RECURSIVE BucketOrder(_, _)
BucketOrder(s, seen) ==
  IF s = <<>> THEN <<>>
  ELSE IF Head(s).stars \in seen THEN BucketOrder(Tail(s), seen)
  ELSE <<Head(s).stars>> \o BucketOrder(Tail(s), seen \cup {Head(s).stars})

\* cardsByStarBucket.get(star): the cards of that star value, in list order
RECURSIVE Bucket(_, _)
Bucket(s, star) ==
  IF s = <<>> THEN <<>>
  ELSE IF Head(s).stars = star THEN <<Head(s)>> \o Bucket(Tail(s), star)
  ELSE Bucket(Tail(s), star)

\* TopOfBucket with a cap of one card per bucket.
TopOfBucket_Single(cs) == SliceTo(cs, 1)

\* cards.slice(0, TOP_PER_BUCKET)
TopOfBucket(cs) == SliceTo(cs, TOP_PER_BUCKET)

RECURSIVE PushBuckets(_, _)
PushBuckets(scored, order) ==
  IF order = <<>> THEN <<>>
  ELSE TopOfBucket(Bucket(scored, Head(order))) \o PushBuckets(scored, Tail(order))

\* prunedCards: the top of every bucket, merged and sorted again
Prune(scored) == SortByPerStar(PushBuckets(scored, BucketOrder(scored, {})))

\* The fast path of findBestDeck is taken.
UseCachedSorted(pool, sortedCache, lastHash, config) ==
  /\ ~sortedCache.isNull
  /\ ~lastHash.isNull
  /\ lastHash.hash = getConfigHash(config)
  /\ Len(pool) = Len(sortedCache.list)

\* What is stored in this.sortedCardsCache by the recompute branch.
SortedToCache(scoredCards) == [isNull |-> FALSE, list |-> scoredCards]

NullCache == [isNull |-> TRUE, list |-> <<>>]
NullHash == [isNull |-> TRUE, hash |-> <<>>]

\* findBestDeck(config) on the object's fields: the fields after it and its
\* locals scoredCards, prunedCards and the returned result.
findBestDeck(pool, hist, cache, sortedCache, lastHash, config) ==
  LET fast == UseCachedSorted(pool, sortedCache, lastHash, config)
      scoredCards == IF fast THEN sortedCache.list
                     ELSE ScoreAndSort(pool, hist, cache, config)
      prunedCards == IF Len(scoredCards) = 0 THEN <<>> ELSE Prune(scoredCards)
  IN [scoreCache |-> IF fast THEN cache ELSE ScoreCacheAfter(pool, hist, cache, config),
      sortedCardsCache |-> IF fast THEN sortedCache ELSE SortedToCache(scoredCards),
      lastConfigHash |-> IF fast THEN lastHash
                         ELSE [isNull |-> FALSE, hash |-> getConfigHash(config)],
      fast |-> fast,
      scoredCards |-> scoredCards,
      prunedCards |-> prunedCards,
      solverCalled |-> Len(scoredCards) # 0,
      result |-> IF Len(scoredCards) = 0 THEN NoResult
                 ELSE findOptimalCombination(prunedCards, TargetStarsOf(config),
                                             TargetCountOf(config))]

(* ----------------------- filterCardsByPortfolio ----------------------- *)
\* portfolioMap.get(heroKey): the portfolio cards of the hero, in order
RECURSIVE PortfolioMatches(_, _)
PortfolioMatches(portfolio, heroKey) ==
  IF portfolio = <<>> THEN <<>>
  ELSE IF Head(portfolio).heroKey = heroKey
       THEN <<Head(portfolio)>> \o PortfolioMatches(Tail(portfolio), heroKey)
       ELSE PortfolioMatches(Tail(portfolio), heroKey)

\* The inner loop over the matches of one card.
RECURSIVE PushMatches(_, _, _)
PushMatches(card, matches, acc) ==
  IF matches = <<>> THEN acc
  ELSE IF Head(matches).cardId \in acc.used
       THEN PushMatches(card, Tail(matches), acc)
       ELSE PushMatches(card, Tail(matches),
              [filtered |-> Append(acc.filtered,
                              [heroKey |-> card.heroKey, stars |-> card.stars,
                               cardId |-> Head(matches).cardId]),
               used |-> acc.used \cup {Head(matches).cardId}])

RECURSIVE FilterFrom(_, _, _, _)
FilterFrom(pool, portfolio, i, acc) ==
  IF i > Len(pool) THEN acc
  ELSE FilterFrom(pool, portfolio, i + 1,
         PushMatches(pool[i], PortfolioMatches(portfolio, pool[i].heroKey), acc))

\* this.cards after filterCardsByPortfolio()
filterCardsByPortfolio(pool, portfolio) ==
  IF Len(portfolio) = 0 THEN pool
  ELSE FilterFrom(pool, portfolio, 1, [filtered |-> <<>>, used |-> {}]).filtered

(* ----------------------------- the state ------------------------------- *)
VARIABLES
  cards,        \* the candidate array passed to findOptimalCombination
  targetStars,  \* its target
  targetCount,  \* its count
  pc,           \* the position in findOptimalCombination
  adjustment,   \* the loop variable of the relaxation loop
  tried,        \* the calls solve(0, target, targetCount) made so far, in order,
                \* each with whether it returned a solution
  memo,         \* the memo map of this invocation
  result,       \* the local "result" (NoResult for null)
  slot,         \* the slot of the greedy loop
  greedy,       \* selected / totalStars / usedCardIds of the greedy loop
  thisCards,        \* this.cards
  historicalData,   \* this.historicalData
  portfolioCards,   \* this.portfolioCards
  scoreCache,       \* this.scoreCache
  sortedCardsCache, \* this.sortedCardsCache
  lastConfigHash,   \* this.lastConfigHash
  lastCall,         \* the findBestDeck call just made: its inputs, locals and result
  prevCall,         \* the findBestDeck call made right before it, if any
  steps,            \* the number of operations of the session so far
  buildResult,      \* what the buildDeck call just made resolved to
  algorithmId,      \* the algorithm id handed to the score estimators
  estimate,         \* what each estimator returned for the series of the hero
  handlers,         \* the position and locals of each message / button handler
  running,          \* the handler whose synchronous segment is executing, or "none"
  intruded,         \* a handler stepped while another one was inside findBestDeck
  removedDefaultMakesy, \* lastConfig.removedDefaultMakesy of chrome.storage
  page,             \* window.location.href, as the path of the page
  wandPresent,      \* the deck-builder bar with its Magic Wand button is in the DOM
  whitelist,        \* whitelistedAddresses of chrome.storage
  buttonInjected,   \* this.buttonInjected
  buttonInDom,      \* an element with id fantasy-custom-wand is in the DOM
  insertions,       \* every insertion of the custom button, with the page it met
  runs              \* the position of each run of checkAndInject

solverVars == <<cards, targetStars, targetCount, pc, adjustment, tried, memo, result,
                slot, greedy>>

estimatorVars == <<algorithmId, estimate>>

asyncVars == <<handlers, running, intruded>>

injectVars == <<page, wandPresent, whitelist, buttonInjected, buttonInDom, insertions,
                runs>>

builderVars == <<thisCards, historicalData, portfolioCards, scoreCache,
                 sortedCardsCache, lastConfigHash, lastCall, prevCall, steps,
                 buildResult, estimatorVars, removedDefaultMakesy, asyncVars,
                 injectVars>>

vars == <<solverVars, builderVars>>

NoCall == [valid |-> FALSE]

EmptyScoreCache == [k \in {} |-> 0]

EmptyHistory == [k \in {} |-> <<>>]

NoBuild == [valid |-> FALSE]

\* CachesAfterClear that leaves the sorted list and its hash in place.
CachesAfterClear_KeepSorted(cache, sorted, hash) ==
  [scoreCache |-> EmptyScoreCache, sortedCardsCache |-> sorted, lastConfigHash |-> hash]

\* "this.scoreCache.clear(); this.sortedCardsCache = null; this.lastConfigHash = null"
CachesAfterClear(cache, sorted, hash) ==
  [scoreCache |-> EmptyScoreCache, sortedCardsCache |-> NullCache,
   lastConfigHash |-> NullHash]

\* No estimator has been called.
NoEstimate == [content |-> [done |-> FALSE], background |-> [done |-> FALSE]]

\* The handlers of the content script, one instance of each.
BUTTON == "buildDeckFromButton"
POPUP == "buildDeck"
REFRESH == "refreshData"
SCORES == "calculateScores"
BuildHandlers == {BUTTON, POPUP}
HandlerIds == BuildHandlers \cup {REFRESH, SCORES}

\* No message has arrived and the button has not been clicked.
NoHandlerStarted ==
  /\ handlers = [h \in HandlerIds |-> [pc |-> "idle"]]
  /\ running = "none"
  /\ intruded = FALSE

MaxRuns == 3
DECKBUILDER == "/deckbuilder"

\* "this.buttonInjected = false" and no run of checkAndInject started.
NothingInjected ==
  /\ buttonInjected = FALSE
  /\ buttonInDom = FALSE
  /\ insertions = <<>>
  /\ runs = [r \in 1..MaxRuns |-> [pc |-> "idle"]]

\* The fields of a FantasyDeckBuilder after its constructor.
Constructed ==
  /\ thisCards = <<>>
  /\ historicalData = EmptyHistory
  /\ portfolioCards = <<>>
  /\ scoreCache = EmptyScoreCache
  /\ sortedCardsCache = NullCache
  /\ lastConfigHash = NullHash
  /\ lastCall = NoCall
  /\ prevCall = NoCall
  /\ steps = 0
  /\ buildResult = NoBuild
  /\ algorithmId = ""
  /\ estimate = NoEstimate
  /\ removedDefaultMakesy = FALSE
  /\ NoHandlerStarted
  /\ NothingInjected

SolverStart ==
  /\ pc = "solve"
  /\ adjustment = 0
  /\ tried = <<>>
  /\ memo = EmptyMemo
  /\ result = NoResult
  /\ slot = 0
  /\ greedy = GreedyStart

InitSolver ==
  /\ \/ /\ cards \in CandidateLists
        /\ targetStars \in 1..MaxTarget
        /\ targetCount \in 1..MaxCount
     \/ /\ cards \in {ExampleCards(TRUE), ExampleCards(FALSE)}
        /\ targetStars = TOURNAMENT_STARS
        /\ targetCount = TOURNAMENT_COUNT
     \/ /\ cards = DearCardList
        /\ targetStars = SumSeq(StarsOf(DearCardList)) - 2
        /\ targetCount = 2
  /\ SolverStart
  /\ Constructed
  /\ page = DECKBUILDER
  /\ wandPresent = FALSE
  /\ whitelist = {}

\* let bestResult = solve(0, targetStars, targetCount);
\* let result = bestResult ? bestResult.selection : null;
SolveExact ==
  /\ pc = "solve"
  /\ LET r == solve(cards, memo, 0, targetStars, targetCount) IN
       /\ memo' = r.memo
       /\ result' = r.res
       /\ tried' = Append(tried, [target |-> targetStars, found |-> r.res.found])
       /\ pc' = IF r.res.found THEN "cap" ELSE "relax"
       /\ adjustment' = 1
  /\ UNCHANGED <<cards, targetStars, targetCount, slot, greedy, builderVars>>

\* One iteration of "for (let adjustment = 1; adjustment <= 2; adjustment++)".
SolveRelaxed ==
  /\ pc = "relax"
  /\ adjustment <= MAX_ADJUSTMENT
  /\ AdjustedTarget(targetStars, adjustment) >= 0
  /\ LET r == solve(cards, memo, 0, AdjustedTarget(targetStars, adjustment), targetCount) IN
       /\ memo' = r.memo
       /\ result' = r.res
       /\ tried' = Append(tried, [target |-> AdjustedTarget(targetStars, adjustment),
                                 found |-> r.res.found])
       /\ pc' = IF r.res.found THEN "cap" ELSE "relax"
       /\ adjustment' = IF r.res.found THEN adjustment ELSE adjustment + 1
  /\ UNCHANGED <<cards, targetStars, targetCount, slot, greedy, builderVars>>

\* The loop ends without a solution: the bound is passed or the target is below 0.
RelaxExhausted ==
  /\ pc = "relax"
  /\ (adjustment > MAX_ADJUSTMENT \/ AdjustedTarget(targetStars, adjustment) < 0)
  /\ pc' = "cap"
  /\ UNCHANGED <<cards, targetStars, targetCount, adjustment, tried, memo, result,
                 slot, greedy, builderVars>>

\* "if (result) { ... if (actualStars > targetStars) result = null ... }" and
\* "if (!result) result = this.findClosestCombination(...)": the greedy starts.
CapCheck ==
  /\ pc = "cap"
  /\ result' = HardCap(cards, result, targetStars)
  /\ pc' = IF result'.found THEN "done" ELSE "greedy"
  /\ UNCHANGED <<cards, targetStars, targetCount, adjustment, tried, memo,
                 slot, greedy, builderVars>>

\* One slot of the greedy loop that finds a card.
GreedySlot ==
  /\ pc = "greedy"
  /\ slot < targetCount
  /\ LET b == GreedyPick(cards, slot, greedy, targetStars, targetCount) IN
       /\ b.bestIndex >= 0
       /\ greedy' = GreedyTake(cards, greedy, b.bestIndex)
       /\ slot' = slot + 1
  /\ UNCHANGED <<cards, targetStars, targetCount, pc, adjustment, tried, memo, result,
                 builderVars>>

\* A slot with no card that fits ("break") or the end of the loop, then the
\* return of findClosestCombination, which findOptimalCombination returns.
GreedyEnd ==
  /\ pc = "greedy"
  /\ \/ slot >= targetCount
     \/ GreedyPick(cards, slot, greedy, targetStars, targetCount).bestIndex < 0
  /\ result' = GreedyReturn(cards, greedy, targetCount)
  /\ pc' = "done"
  /\ UNCHANGED <<cards, targetStars, targetCount, adjustment, tried, memo,
                 slot, greedy, builderVars>>

NextSolver ==
  \/ SolveExact
  \/ SolveRelaxed
  \/ RelaxExhausted
  \/ CapCheck
  \/ GreedySlot
  \/ GreedyEnd

SpecSolver == InitSolver /\ [][NextSolver]_vars

(* ------------------------- the builder object -------------------------- *)
MaxCopies == 3
MaxSteps == 4

ALPHA == "ALPHA"
BETA == "BETA"

SheetRow(heroKey, stars) == [heroKey |-> heroKey, stars |-> stars, cardId |-> 0]

\* What scrapeAllHistoricalData parses from the sheet: cardData (one row per
\* hero, stars as parseInt gives them, no card id) and historicalData (a
\* non-empty series of non-negative scores per hero, most recent first).
HistoryChoices == {<<1, 2>>, <<2, 0>>}

Sheets ==
  { [rows |-> <<SheetRow(ALPHA, 1), SheetRow(BETA, b), SheetRow(MAKESY, m)>>,
     history |-> (ALPHA :> ha) @@ (BETA :> <<2, 0>>) @@ (MAKESY :> <<1>>)] :
      b \in {-1, 0, 1}, m \in {1, 2}, ha \in HistoryChoices }

\* What scrapePortfolioCards builds: one {cardId, heroKey} per owned copy,
\* the card ids distinct.
Portfolio(na, nb, nm) ==
  [i \in 1..(na + nb + nm) |->
     [cardId |-> i,
      heroKey |-> IF i <= na THEN ALPHA ELSE IF i <= na + nb THEN BETA ELSE MAKESY]]

Portfolios == { Portfolio(0, 0, 0), Portfolio(1, MaxCopies, 0),
                Portfolio(MaxCopies, MaxCopies, 1) }

Algorithms == {"exponentialSmoothing", "consistencyFloor"}

OverrideChoices == { <<>>, << <<ALPHA, 2>> >>, << <<BETA, 1>> >>, << <<MAKESY, 300>> >> }

\* The configurations buildDeck passes (no target: 19 stars, 5 cards) and one
\* with a target of its own.
Configs ==
  { [algorithm |-> alg, scoreOverrides |-> ov, targetStars |-> 0, cardCount |-> 0] :
      alg \in Algorithms, ov \in OverrideChoices }
  \cup { [algorithm |-> "exponentialSmoothing", scoreOverrides |-> <<>>,
          targetStars |-> 4, cardCount |-> 3] }

InitDeck ==
  /\ Constructed
  /\ page = DECKBUILDER
  /\ wandPresent = FALSE
  /\ whitelist = {}
  /\ cards = <<>>
  /\ targetStars = 0
  /\ targetCount = 0
  /\ pc = "idle"
  /\ adjustment = 0
  /\ tried = <<>>
  /\ memo = EmptyMemo
  /\ result = NoResult
  /\ slot = 0
  /\ greedy = GreedyStart

\* scrapeAllHistoricalData: "this.historicalData = historicalData; this.cards = cardData"
ScrapeAllHistoricalData ==
  /\ steps < MaxSteps
  /\ \E sheet \in Sheets :
       /\ thisCards' = sheet.rows
       /\ historicalData' = sheet.history
  /\ lastCall' = NoCall
  /\ prevCall' = NoCall
  /\ steps' = steps + 1
  /\ buildResult' = NoBuild
  /\ UNCHANGED <<solverVars, estimatorVars, removedDefaultMakesy, asyncVars,
                 injectVars, portfolioCards, scoreCache, sortedCardsCache,
                 lastConfigHash>>

\* scrapePortfolioCards ("this.portfolioCards = portfolioCards") followed by
\* filterCardsByPortfolio, as buildDeck calls them.
ScrapeAndFilterPortfolio ==
  /\ steps < MaxSteps
  /\ \E portfolio \in Portfolios :
       /\ portfolioCards' = portfolio
       /\ thisCards' = filterCardsByPortfolio(thisCards, portfolio)
  /\ lastCall' = NoCall
  /\ prevCall' = NoCall
  /\ steps' = steps + 1
  /\ buildResult' = NoBuild
  /\ UNCHANGED <<solverVars, estimatorVars, removedDefaultMakesy, asyncVars,
                 injectVars, historicalData, scoreCache, sortedCardsCache,
                 lastConfigHash>>

\* "this.scoreCache.clear(); this.sortedCardsCache = null; this.lastConfigHash = null"
ClearCaches ==
  /\ steps < MaxSteps
  /\ \E cleared \in {CachesAfterClear(scoreCache, sortedCardsCache, lastConfigHash)} :
       /\ scoreCache' = cleared.scoreCache
       /\ sortedCardsCache' = cleared.sortedCardsCache
       /\ lastConfigHash' = cleared.lastConfigHash
  /\ lastCall' = NoCall
  /\ prevCall' = NoCall
  /\ steps' = steps + 1
  /\ buildResult' = NoBuild
  /\ UNCHANGED <<solverVars, estimatorVars, removedDefaultMakesy, asyncVars,
                 injectVars, thisCards, historicalData, portfolioCards>>

\* A call of findBestDeck(config).
FindBestDeck ==
  /\ steps < MaxSteps
  /\ \E config \in Configs :
     \E r \in {findBestDeck(thisCards, historicalData, scoreCache, sortedCardsCache,
                             lastConfigHash, config)} :
         /\ scoreCache' = r.scoreCache
         /\ sortedCardsCache' = r.sortedCardsCache
         /\ lastConfigHash' = r.lastConfigHash
         /\ lastCall' = [valid |-> TRUE, config |-> config, pool |-> thisCards,
                         history |-> historicalData, fast |-> r.fast,
                         scoredCards |-> r.scoredCards, prunedCards |-> r.prunedCards,
                         solverCalled |-> r.solverCalled, result |-> r.result]
  /\ prevCall' = lastCall
  /\ steps' = steps + 1
  /\ buildResult' = NoBuild
  /\ UNCHANGED <<solverVars, estimatorVars, removedDefaultMakesy, asyncVars,
                 injectVars, thisCards, historicalData, portfolioCards>>

NextDeck ==
  \/ ScrapeAllHistoricalData
  \/ ScrapeAndFilterPortfolio
  \/ ClearCaches
  \/ FindBestDeck

SpecDeck == InitDeck /\ [][NextDeck]_vars

(* ----------------------------- the handlers ---------------------------- *)
MaxBuilds == 2

DEFAULT_MAKESY == 300
NO_COMBINATION == "Could not find valid combination"

\* A sheet without a usable row: no card, no history.
EmptySheet == [rows |-> <<>>, history |-> EmptyHistory]

\* What loadHistoricalData leaves in this.cards and this.historicalData: the
\* cached or freshly parsed sheet.
BuildSheets == Sheets \cup {EmptySheet}

BuildPortfolios == Portfolios \cup {Portfolio(0, 1, 0)}

\* "if (finalConfig.scoreOverrides['0XMAKESY'] === undefined)
\*    finalConfig.scoreOverrides['0XMAKESY'] = 300"
WithDefaultMakesy(config) ==
  IF MAKESY \in OverrideKeys(config.scoreOverrides) THEN config
  ELSE [config EXCEPT !.scoreOverrides = Append(@, <<MAKESY, DEFAULT_MAKESY>>)]

\* The configuration buildDeck starts from: the one the popup passes, or (no
\* argument) lastConfig of the storage, by default exponentialSmoothing
\* without overrides.
BuildRequests ==
  { [isNull |-> TRUE,
     config |-> [algorithm |-> "exponentialSmoothing", scoreOverrides |-> <<>>,
                 targetStars |-> 0, cardCount |-> 0]],
    [isNull |-> TRUE,
     config |-> [algorithm |-> "consistencyFloor", scoreOverrides |-> << <<ALPHA, 2>> >>,
                 targetStars |-> 0, cardCount |-> 0]],
    [isNull |-> FALSE,
     config |-> [algorithm |-> "exponentialSmoothing", scoreOverrides |-> <<>>,
                 targetStars |-> 0, cardCount |-> 0]],
    [isNull |-> FALSE,
     config |-> [algorithm |-> "consistencyFloor", scoreOverrides |-> << <<BETA, 1>> >>,
                 targetStars |-> 0, cardCount |-> 0]] }

\* finalConfig of buildDeck
FinalConfig(request) ==
  [(IF request.isNull THEN WithDefaultMakesy(request.config) ELSE request.config)
     EXCEPT !.targetStars = TOURNAMENT_STARS, !.cardCount = TOURNAMENT_COUNT]

\* buildDeck without the test of bestDeck: "bestDeck.forEach" throws on null
\* and the catch block returns the message of the TypeError.
BuildOutcome_NoNullTest(res) ==
  IF ~res.found
  THEN [valid |-> TRUE, success |-> FALSE,
        error |-> "Cannot read properties of null (reading 'forEach')"]
  ELSE [valid |-> TRUE, success |-> TRUE, error |-> ""]

\* "if (!bestDeck || bestDeck.length === 0) return { success: false, error: ... }"
\* and the return at the end of buildDeck.
BuildOutcome(res) ==
  IF ~res.found \/ Len(res.selection) = 0
  THEN [valid |-> TRUE, success |-> FALSE, error |-> NO_COMBINATION]
  ELSE [valid |-> TRUE, success |-> TRUE, error |-> ""]

\* The popup stores the configuration it sent after a successful build:
\* "chrome.storage.local.set({ lastConfig: config })", config holding
\* tournament, algorithm and scoreOverrides only.
SavedByPopup(request, outcome) == ~request.isNull /\ outcome.success

\* buildDeck(config) where the data load succeeds: loadHistoricalData,
\* scrapePortfolioCards, filterCardsByPortfolio, the clearing of the caches,
\* findBestDeck and the value the promise resolves to.
BuildDeck ==
  /\ steps < MaxBuilds
  /\ \E request \in BuildRequests, sheet \in BuildSheets, portfolio \in BuildPortfolios :
     \E finalConfig \in {FinalConfig(request)},
        pool \in {filterCardsByPortfolio(sheet.rows, portfolio)},
        cleared \in {CachesAfterClear(scoreCache, sortedCardsCache, lastConfigHash)} :
     \E r \in {findBestDeck(pool, sheet.history, cleared.scoreCache,
                             cleared.sortedCardsCache, cleared.lastConfigHash,
                             finalConfig)} :
          /\ historicalData' = sheet.history
          /\ portfolioCards' = portfolio
          /\ thisCards' = pool
          /\ scoreCache' = r.scoreCache
          /\ sortedCardsCache' = r.sortedCardsCache
          /\ lastConfigHash' = r.lastConfigHash
          /\ lastCall' = [valid |-> TRUE, config |-> finalConfig, pool |-> pool,
                          history |-> sheet.history, fast |-> r.fast,
                          scoredCards |-> r.scoredCards, prunedCards |-> r.prunedCards,
                          solverCalled |-> r.solverCalled, result |-> r.result,
                          fromStorage |-> request.isNull,
                          removedDefaultMakesy |-> removedDefaultMakesy]
          /\ buildResult' = BuildOutcome(r.result)
          /\ removedDefaultMakesy' =
               IF SavedByPopup(request, BuildOutcome(r.result)) THEN FALSE
               ELSE removedDefaultMakesy
  /\ prevCall' = NoCall
  /\ steps' = steps + 1
  /\ UNCHANGED <<solverVars, estimatorVars, asyncVars, injectVars>>

\* The remove button of the 0XMAKESY row of the popup: the key leaves
\* scoreOverrides (the stored configurations of BuildRequests hold none) and
\* "config.removedDefaultMakesy = true" is stored.
RemoveMakesyOverride ==
  /\ ~removedDefaultMakesy
  /\ removedDefaultMakesy' = TRUE
  /\ UNCHANGED <<solverVars, estimatorVars, asyncVars, injectVars, thisCards,
                 historicalData, portfolioCards, scoreCache, sortedCardsCache,
                 lastConfigHash, lastCall, prevCall, steps, buildResult>>

\* The refreshData message: "await builder.scrapeAllHistoricalData()"
RefreshData ==
  /\ steps < MaxBuilds
  /\ \E sheet \in BuildSheets :
       /\ thisCards' = sheet.rows
       /\ historicalData' = sheet.history
  /\ lastCall' = NoCall
  /\ prevCall' = NoCall
  /\ buildResult' = NoBuild
  /\ steps' = steps + 1
  /\ UNCHANGED <<solverVars, estimatorVars, removedDefaultMakesy, asyncVars,
                 injectVars, portfolioCards, scoreCache, sortedCardsCache,
                 lastConfigHash>>

NextBuild ==
  \/ BuildDeck
  \/ RefreshData
  \/ RemoveMakesyOverride

SpecBuild == InitDeck /\ [][NextBuild]_vars

(* --------------------------- the estimators ---------------------------- *)
MaxObs == 6
MaxObsValue == 2

RECURSIVE SeqsUpTo(_, _)
SeqsUpTo(n, S) ==
  IF n = 0 THEN {<<>>}
  ELSE LET shorter == SeqsUpTo(n - 1, S)
       IN shorter \cup {Append(q, x) : q \in {t \in shorter : Len(t) = n - 1}, x \in S}

\* The series a hero can have: non-negative integers, most recent first; the
\* two series of the documented examples are among them.
SeriesChoices == SeqsUpTo(MaxObs, 0..MaxObsValue) \cup {<<10>>, <<10, 20>>}

\* The algorithm ids of the switch and one that is not among them.
AlgorithmIds ==
  {"recent6weeks", "recent4weeks", "recent6exclude1", "recent4exclude1", "weighted",
   "consistencyFloor", "consistencyMedian", "exponentialSmoothing", "unknownAlgorithm"}

\* The hero ALPHA has a series (possibly empty) or no entry at all.
InitScore ==
  /\ thisCards = <<>>
  /\ historicalData \in {EmptyHistory} \cup {(ALPHA :> q) : q \in SeriesChoices}
  /\ portfolioCards = <<>>
  /\ scoreCache = EmptyScoreCache
  /\ sortedCardsCache = NullCache
  /\ lastConfigHash = NullHash
  /\ lastCall = NoCall
  /\ prevCall = NoCall
  /\ steps = 0
  /\ buildResult = NoBuild
  /\ algorithmId \in AlgorithmIds
  /\ estimate = NoEstimate
  /\ removedDefaultMakesy = FALSE
  /\ NoHandlerStarted
  /\ page = DECKBUILDER
  /\ wandPresent = FALSE
  /\ whitelist = {}
  /\ NothingInjected
  /\ cards = <<>>
  /\ targetStars = 0
  /\ targetCount = 0
  /\ pc = "idle"
  /\ adjustment = 0
  /\ tried = <<>>
  /\ memo = EmptyMemo
  /\ result = NoResult
  /\ slot = 0
  /\ greedy = GreedyStart

\* this.calculateScore('ALPHA', algorithm) of the content script
CalculateScore ==
  /\ ~estimate.content.done
  /\ estimate' = [estimate EXCEPT !.content =
                    [done |-> TRUE,
                     value |-> calculateScore(historicalData, ALPHA, algorithmId)]]
  /\ UNCHANGED <<solverVars, removedDefaultMakesy, asyncVars, injectVars, thisCards,
                 historicalData, portfolioCards, scoreCache, sortedCardsCache,
                 lastConfigHash, lastCall, prevCall, steps, buildResult, algorithmId>>

\* calculateAllScores of background.js on the entry of the hero:
\* "calculateScore(historicalScores, algorithm)"
BackgroundCalculateScore ==
  /\ ~estimate.background.done
  /\ ALPHA \in DOMAIN historicalData
  /\ estimate' = [estimate EXCEPT !.background =
                    [done |-> TRUE,
                     value |-> bgCalculateScore(historicalData[ALPHA], algorithmId)]]
  /\ UNCHANGED <<solverVars, removedDefaultMakesy, asyncVars, injectVars, thisCards,
                 historicalData, portfolioCards, scoreCache, sortedCardsCache,
                 lastConfigHash, lastCall, prevCall, steps, buildResult, algorithmId>>

NextScore ==
  \/ CalculateScore
  \/ BackgroundCalculateScore

SpecScore == InitScore /\ [][NextScore]_vars

(* ----------------------- the handlers, interleaved --------------------- *)
\* The handlers are async functions on one thread: a handler runs from one
\* await to the next without interruption, and between two awaits of one
\* handler any other handler may run.  findBestDeck and
\* filterCardsByPortfolio are not async.

\* Suspended with findBestDeck giving up the thread while it runs.
Suspended_InCall == {"idle", "load", "scrape", "filter", "fetch", "save", "done", "search"}

\* The positions at which a handler is not executing: not started, waiting
\* at an await, finished.  "load": the storage reads of buildDeck and of
\* loadHistoricalData are awaited; "scrape": loadHistoricalData is awaited;
\* "filter": scrapePortfolioCards is awaited; "fetch": the sheet is awaited;
\* "save": loadHistoricalData of calculateScores is awaited.  At "clear",
\* "call" and "search" a buildDeck is between two awaits.
Suspended == {"idle", "load", "scrape", "filter", "fetch", "save", "done"}

\* The data a load leaves in this.cards and this.historicalData.
AsyncSheets == {sheet \in Sheets : sheet.rows[2].stars = 1}

AsyncPortfolios == {Portfolio(2, 2, 1), Portfolio(2, 1, 0)}

\* The handler h is at the position "at" and the thread is free or its own.
MayStep(h, at) == handlers[h].pc = at /\ running \in {"none", h}

\* The handler h moves on; the thread stays with it unless it reached an await.
Goes(h, rec) ==
  /\ handlers' = [handlers EXCEPT ![h] = rec]
  /\ running' = IF rec.pc \in Suspended THEN "none" ELSE h
  /\ intruded' = (intruded \/ \E g \in HandlerIds \ {h} : handlers[g].pc = "search")

\* What findBestDeck reads of the builder.
View ==
  [cards |-> thisCards, historicalData |-> historicalData, scoreCache |-> scoreCache,
   sortedCardsCache |-> sortedCardsCache, lastConfigHash |-> lastConfigHash]

\* buildDeck up to its first awaits: the configuration (line 238-248).
BuildStart ==
  /\ \E h \in BuildHandlers, request \in BuildRequests :
       /\ MayStep(h, "idle")
       /\ request.isNull = (h = BUTTON)
       /\ Goes(h, [pc |-> "load", config |-> FinalConfig(request)])
  /\ UNCHANGED <<solverVars, estimatorVars, removedDefaultMakesy, injectVars, thisCards,
                 historicalData, portfolioCards, scoreCache, sortedCardsCache,
                 lastConfigHash, lastCall, prevCall, steps, buildResult>>

\* "await this.loadHistoricalData(cacheResult)": the cached or fetched sheet
BuildLoad ==
  /\ \E h \in BuildHandlers, sheet \in AsyncSheets :
       /\ MayStep(h, "load")
       /\ thisCards' = sheet.rows
       /\ historicalData' = sheet.history
       /\ Goes(h, [handlers[h] EXCEPT !.pc = "scrape"])
  /\ UNCHANGED <<solverVars, estimatorVars, removedDefaultMakesy, injectVars,
                 portfolioCards, scoreCache, sortedCardsCache, lastConfigHash,
                 lastCall, prevCall, steps, buildResult>>

\* "await this.scrapePortfolioCards()"
BuildScrape ==
  /\ \E h \in BuildHandlers, portfolio \in AsyncPortfolios :
       /\ MayStep(h, "scrape")
       /\ portfolioCards' = portfolio
       /\ Goes(h, [handlers[h] EXCEPT !.pc = "filter"])
  /\ UNCHANGED <<solverVars, estimatorVars, removedDefaultMakesy, injectVars, thisCards,
                 historicalData, scoreCache, sortedCardsCache, lastConfigHash,
                 lastCall, prevCall, steps, buildResult>>

\* "this.filterCardsByPortfolio()"
BuildFilter ==
  /\ \E h \in BuildHandlers :
       /\ MayStep(h, "filter")
       /\ thisCards' = filterCardsByPortfolio(thisCards, portfolioCards)
       /\ Goes(h, [handlers[h] EXCEPT !.pc = "clear"])
  /\ UNCHANGED <<solverVars, estimatorVars, removedDefaultMakesy, injectVars,
                 historicalData, portfolioCards, scoreCache, sortedCardsCache,
                 lastConfigHash, lastCall, prevCall, steps, buildResult>>

\* The clearing of the caches before findBestDeck.
BuildClear ==
  /\ \E h \in BuildHandlers :
     \E cleared \in {CachesAfterClear(scoreCache, sortedCardsCache, lastConfigHash)} :
       /\ MayStep(h, "clear")
       /\ scoreCache' = cleared.scoreCache
       /\ sortedCardsCache' = cleared.sortedCardsCache
       /\ lastConfigHash' = cleared.lastConfigHash
       /\ Goes(h, [pc |-> "call", config |-> handlers[h].config, before |-> View])
  /\ UNCHANGED <<solverVars, estimatorVars, removedDefaultMakesy, injectVars, thisCards,
                 historicalData, portfolioCards, lastCall, prevCall, steps, buildResult>>

\* findBestDeck(finalConfig) is entered.
BuildCallStart ==
  /\ \E h \in BuildHandlers :
       /\ MayStep(h, "call")
       /\ Goes(h, [pc |-> "search", config |-> handlers[h].config,
                   before |-> handlers[h].before, seen |-> View])
  /\ UNCHANGED <<solverVars, estimatorVars, removedDefaultMakesy, injectVars, thisCards,
                 historicalData, portfolioCards, scoreCache, sortedCardsCache,
                 lastConfigHash, lastCall, prevCall, steps, buildResult>>

\* findBestDeck returns and buildDeck goes on to its result.
BuildCallEnd ==
  /\ \E h \in {g \in BuildHandlers : MayStep(g, "search")} :
     \E r \in {findBestDeck(thisCards, historicalData, scoreCache, sortedCardsCache,
                             lastConfigHash, handlers[h].config)} :
       /\ scoreCache' = r.scoreCache
       /\ sortedCardsCache' = r.sortedCardsCache
       /\ lastConfigHash' = r.lastConfigHash
       /\ lastCall' = [valid |-> TRUE, config |-> handlers[h].config, pool |-> thisCards,
                       history |-> historicalData, fast |-> r.fast,
                       scoredCards |-> r.scoredCards, prunedCards |-> r.prunedCards,
                       solverCalled |-> r.solverCalled, result |-> r.result,
                       by |-> h, before |-> handlers[h].before,
                       start |-> handlers[h].seen, atEnd |-> View]
       /\ buildResult' = BuildOutcome(r.result)
       /\ Goes(h, [pc |-> "done"])
  /\ UNCHANGED <<solverVars, estimatorVars, removedDefaultMakesy, injectVars, thisCards,
                 historicalData, portfolioCards, prevCall, steps>>

\* The refreshData message up to the await of the sheet.
RefreshStart ==
  /\ MayStep(REFRESH, "idle")
  /\ Goes(REFRESH, [pc |-> "fetch"])
  /\ UNCHANGED <<solverVars, estimatorVars, removedDefaultMakesy, injectVars, thisCards,
                 historicalData, portfolioCards, scoreCache, sortedCardsCache,
                 lastConfigHash, lastCall, prevCall, steps, buildResult>>

\* scrapeAllHistoricalData after the sheet arrived:
\* "this.historicalData = historicalData; this.cards = cardData"
RefreshAssign ==
  /\ MayStep(REFRESH, "fetch")
  /\ \E sheet \in AsyncSheets :
       /\ thisCards' = sheet.rows
       /\ historicalData' = sheet.history
  /\ Goes(REFRESH, [pc |-> "done"])
  /\ UNCHANGED <<solverVars, estimatorVars, removedDefaultMakesy, injectVars,
                 portfolioCards, scoreCache, sortedCardsCache, lastConfigHash,
                 lastCall, prevCall, steps, buildResult>>

\* The calculateScores message up to the await of the storage.
ScoresStart ==
  /\ MayStep(SCORES, "idle")
  /\ Goes(SCORES, [pc |-> "load"])
  /\ UNCHANGED <<solverVars, estimatorVars, removedDefaultMakesy, injectVars, thisCards,
                 historicalData, portfolioCards, scoreCache, sortedCardsCache,
                 lastConfigHash, lastCall, prevCall, steps, buildResult>>

\* "await builder.loadHistoricalData()" of calculateScores
ScoresLoad ==
  /\ MayStep(SCORES, "load")
  /\ \E sheet \in AsyncSheets :
       /\ thisCards' = sheet.rows
       /\ historicalData' = sheet.history
  /\ Goes(SCORES, [pc |-> "save"])
  /\ UNCHANGED <<solverVars, estimatorVars, removedDefaultMakesy, injectVars,
                 portfolioCards, scoreCache, sortedCardsCache, lastConfigHash,
                 lastCall, prevCall, steps, buildResult>>

\* "await builder.saveCalculatedScores(request.config)": reads historicalData
ScoresSave ==
  /\ MayStep(SCORES, "save")
  /\ Goes(SCORES, [pc |-> "done"])
  /\ UNCHANGED <<solverVars, estimatorVars, removedDefaultMakesy, injectVars, thisCards,
                 historicalData, portfolioCards, scoreCache, sortedCardsCache,
                 lastConfigHash, lastCall, prevCall, steps, buildResult>>

NextAsync ==
  \/ BuildStart
  \/ BuildLoad
  \/ BuildScrape
  \/ BuildFilter
  \/ BuildClear
  \/ BuildCallStart
  \/ BuildCallEnd
  \/ RefreshStart
  \/ RefreshAssign
  \/ ScoresStart
  \/ ScoresLoad
  \/ ScoresSave

SpecAsync == InitDeck /\ [][NextAsync]_vars

(* ------------------------ the button injection ------------------------ *)
\* The pages of the site by their path: the deck builder, the portfolio of
\* an address, any other page.
Pages == {DECKBUILDER, "/player/0xa", "/player/0xb", "/"}

\* url.match(/\/player\/(0x[a-fA-F0-9]+)/), "" for no match
PlayerOf(p) ==
  IF p = "/player/0xa" THEN "0xa" ELSE IF p = "/player/0xb" THEN "0xb" ELSE ""

\* isWhitelisted after its storage read, on the URL as it is then
isWhitelisted(p, list) ==
  IF list = {} THEN FALSE
  ELSE IF PlayerOf(p) # "" THEN PlayerOf(p) \in list
  ELSE p = DECKBUILDER

\* The builder is constructed on some page of the site, the page not yet
\* rendered, with or without a whitelisted address in the storage.
InitInject ==
  /\ Constructed
  /\ page \in Pages
  /\ wandPresent = FALSE
  /\ whitelist \in {{}, {"0xa"}}
  /\ cards = <<>>
  /\ targetStars = 0
  /\ targetCount = 0
  /\ pc = "idle"
  /\ adjustment = 0
  /\ tried = <<>>
  /\ memo = EmptyMemo
  /\ result = NoResult
  /\ slot = 0
  /\ greedy = GreedyStart

\* A continuation of a run is queued as a microtask: it runs before the
\* page handles another event.
ContinuationQueued == \E r \in 1..MaxRuns : runs[r].pc \in {"resume", "resumePre"}

InjectFrame ==
  UNCHANGED <<solverVars, estimatorVars, removedDefaultMakesy, asyncVars, thisCards,
              historicalData, portfolioCards, scoreCache, sortedCardsCache,
              lastConfigHash, lastCall, prevCall, steps, buildResult, whitelist>>

\* checkAndInject called at once or by one of the timers, up to its await:
\* "if (!window.location.href.includes('/deckbuilder')) return;
\*  if (!(await this.isWhitelisted())) ..."
RunStart ==
  /\ ~ContinuationQueued
  /\ \E r \in 1..MaxRuns :
       /\ runs[r].pc = "idle"
       /\ runs' = [runs EXCEPT ![r] =
                     [pc |-> IF page = DECKBUILDER THEN "awaitList" ELSE "done"]]
  /\ InjectFrame
  /\ UNCHANGED <<page, wandPresent, buttonInjected, buttonInDom, insertions>>

\* The debounced callback of the MutationObserver, up to its await:
\* "if (!this.buttonInjected && await this.isWhitelisted())"
DebounceFire ==
  /\ ~ContinuationQueued
  /\ \E r \in 1..MaxRuns :
       /\ runs[r].pc = "idle"
       /\ runs' = [runs EXCEPT ![r] =
                     [pc |-> IF buttonInjected THEN "done" ELSE "awaitPre"]]
  /\ InjectFrame
  /\ UNCHANGED <<page, wandPresent, buttonInjected, buttonInDom, insertions>>

\* The storage read of isWhitelisted resolves and isWhitelisted returns.
ListResolved ==
  /\ ~ContinuationQueued
  /\ \E r \in 1..MaxRuns :
       /\ runs[r].pc \in {"awaitList", "awaitPre"}
       /\ runs' = [runs EXCEPT ![r] =
                     [pc |-> IF runs[r].pc = "awaitList" THEN "resume" ELSE "resumePre",
                      listed |-> isWhitelisted(page, whitelist)]]
  /\ InjectFrame
  /\ UNCHANGED <<page, wandPresent, buttonInjected, buttonInDom, insertions>>

\* The debounced callback goes on into checkAndInject, up to its await.
PreResume ==
  /\ \E r \in 1..MaxRuns :
       /\ runs[r].pc = "resumePre"
       /\ runs' = [runs EXCEPT ![r] =
                     [pc |-> IF runs[r].listed /\ page = DECKBUILDER
                             THEN "awaitList" ELSE "done"]]
  /\ InjectFrame
  /\ UNCHANGED <<page, wandPresent, buttonInjected, buttonInDom, insertions>>

\* checkAndInject after its await: the tests of the whitelist, of the
\* element and the flag, of the Magic Wand button, and the insertion.
Resume ==
  /\ \E r \in 1..MaxRuns :
       /\ runs[r].pc = "resume"
       /\ runs' = [runs EXCEPT ![r] = [pc |-> "done"]]
       /\ IF runs[r].listed /\ ~(buttonInDom \/ buttonInjected) /\ wandPresent
          THEN /\ buttonInDom' = TRUE
               /\ buttonInjected' = TRUE
               /\ insertions' = Append(insertions,
                                       [page |-> page,
                                        whitelisted |-> isWhitelisted(page, whitelist)])
          ELSE UNCHANGED <<buttonInDom, buttonInjected, insertions>>
  /\ InjectFrame
  /\ UNCHANGED <<page, wandPresent>>

\* The single-page application moves to another page: the URL changes.
Navigate ==
  /\ ~ContinuationQueued
  /\ page' \in Pages \ {page}
  /\ InjectFrame
  /\ UNCHANGED <<wandPresent, buttonInjected, buttonInDom, insertions, runs>>

\* The application renders the page of the URL: the deck-builder bar with
\* its Magic Wand button is there on the deck builder only, and what was
\* inserted into the bar goes with it.
Render ==
  /\ ~ContinuationQueued
  /\ wandPresent' = (page = DECKBUILDER)
  /\ buttonInDom' = (buttonInDom /\ wandPresent /\ page = DECKBUILDER)
  /\ InjectFrame
  /\ UNCHANGED <<page, buttonInjected, insertions, runs>>

NextInject ==
  \/ RunStart
  \/ DebounceFire
  \/ ListResolved
  \/ PreResume
  \/ Resume
  \/ Navigate
  \/ Render

SpecInject == InitInject /\ [][NextInject]_vars

(* ======================= reference definitions ========================= *)
RECURSIVE SetStars(_, _)
SetStars(cs, S) ==
  IF S = {} THEN 0
  ELSE LET p == CHOOSE x \in S : TRUE IN cs[p].stars + SetStars(cs, S \ {p})

RECURSIVE SetScore(_, _)
SetScore(cs, S) ==
  IF S = {} THEN 0
  ELSE LET p == CHOOSE x \in S : TRUE IN cs[p].expectedScore + SetScore(cs, S \ {p})

\* The sets of exactly k distinct cards (positions) of the candidate list.
KSubsets(cs, k) == {S \in SUBSET (1..Len(cs)) : Cardinality(S) = k}

\* The k-subsets whose stars sum to exactly t.
ExactSubsets(cs, t, k) == {S \in KSubsets(cs, k) : SetStars(cs, S) = t}

\* The k-subsets of cards that carry a card id whose stars sum to exactly t.
SelectableExactSubsets(cs, t, k) ==
  {S \in ExactSubsets(cs, t, k) : \A p \in S : HasCardId(cs[p])}

MaxOf(S) == CHOOSE x \in S : \A y \in S : y <= x

Returned == pc = "done"

ReturnedSelection == Returned /\ result.found

\* findOptimalCombination went through exact and relaxed search to the greedy.
ByGreedy == Returned /\ slot > 0

NoCardRepeated(cs, sel) ==
  \A i, j \in DOMAIN sel :
     i # j => /\ sel[i] # sel[j]
              /\ (HasCardId(cs[sel[i]]) => cs[sel[i]].cardId # cs[sel[j]].cardId)

(* ============================== claims ================================= *)

\* C1: a returned selection never has more stars in total than the target,
\* whichever path (exact, relaxed, greedy) produced it.
C1_NeverAboveTarget ==
  ReturnedSelection => SelectionStars(cards, result.selection) <= targetStars

\* C1 witness: the greedy fallback returned a selection below the target.
C1_Witness ==
  /\ ReturnedSelection /\ ByGreedy
  /\ SelectionStars(cards, result.selection) < targetStars

\* C2: a returned selection holds no card twice and no card id twice, also
\* when the candidates carry no card id.
C2_NoDuplicates ==
  ReturnedSelection => NoCardRepeated(cards, result.selection)

\* C3: a returned selection holds exactly targetCount cards; a shorter
\* partial selection is never returned.
C3_ExactlyTargetCount ==
  ReturnedSelection => Len(result.selection) = targetCount

\* C3 witness: the greedy fallback returned a selection of two or more cards.
C3_Witness ==
  /\ ReturnedSelection /\ ByGreedy
  /\ targetCount >= 2
  /\ Len(result.selection) = targetCount

\* The greedy loop stopped with a partial selection and null was returned.
C3_PartialDropped ==
  /\ Returned /\ ~result.found
  /\ Len(greedy.selected) > 0 /\ Len(greedy.selected) < targetCount

\* C4: whenever some targetCount cards of the list have stars summing to
\* exactly the target, the returned selection is targetCount cards summing to
\* exactly the target.
C4_ExactFoundWhenExists ==
  (Returned /\ ExactSubsets(cards, targetStars, targetCount) # {})
    => /\ result.found
       /\ Len(result.selection) = targetCount
       /\ SelectionStars(cards, result.selection) = targetStars

\* C5: when an exact solution exists the returned selection's total expected
\* score is the maximum over all exact targetCount-subsets (brute force).
C5_MaximalScore ==
  (Returned /\ ExactSubsets(cards, targetStars, targetCount) # {})
    => /\ result.found
       /\ SelectionScore(cards, result.selection) =
            MaxOf({SetScore(cards, S) : S \in ExactSubsets(cards, targetStars, targetCount)})

C7_NullWhenInfeasible ==
  (Returned /\ \A S \in KSubsets(cards, targetCount) : SetStars(cards, S) > targetStars)
    => ~result.found

\* The cards a greedy slot may take after the picks "prior": among the first
\* GREEDY_CONSIDER, not picked before, keeping the total within the target.
EligibleAfter(cs, prior, T) ==
  {p \in 1..Min2(Len(cs), GREEDY_CONSIDER) :
     /\ p \notin Range(prior)
     /\ SelectionStars(cs, prior) + cs[p].stars <= T}

\* C8: every greedy slot takes an eligible card of the highest expected score;
\* the final slot takes, among those, one landing closest to the target; a
\* slot with no eligible card makes the result null.
C8_GreedyRule ==
  /\ \A s \in DOMAIN greedy.selected :
       LET prior == SubSeq(greedy.selected, 1, s - 1)
           el    == EligibleAfter(cards, prior, targetStars)
           p     == greedy.selected[s]
           land(q) == Abs(targetStars - (SelectionStars(cards, prior) + cards[q].stars))
       IN /\ p \in el
          /\ \A q \in el : cards[q].expectedScore <= cards[p].expectedScore
          /\ s = targetCount =>
               \A q \in el : cards[q].expectedScore = cards[p].expectedScore
                               => land(p) <= land(q)
  /\ (Returned /\ Len(tried) = 3 /\ ~tried[3].found
      /\ Len(greedy.selected) < targetCount
      /\ EligibleAfter(cards, greedy.selected, targetStars) = {})
       => ~result.found

\* The cards of a list with a star value.
OfStar(cs, v) == {c \in Range(cs) : c.stars = v}

\* C9: the list handed to the search holds, per star value, at most 5 cards:
\* those of the scored pool with the highest score per star, equal ones in
\* pool order; and it is sorted by score per star, highest first.
C9_PrunedTopPerBucket ==
  (lastCall.valid /\ lastCall.solverCalled) =>
    LET S == lastCall.scoredCards
        P == lastCall.prunedCards
    IN /\ Cardinality(Range(P)) = Len(P)
       /\ Range(P) \subseteq Range(S)
       /\ \A v \in {c.stars : c \in Range(S)} :
            LET kept == OfStar(P, v)
                all  == OfStar(S, v)
            IN /\ Cardinality(kept) = Min2(TOP_PER_BUCKET, Cardinality(all))
               /\ \A d \in kept : \A c \in all \ kept :
                    \/ d.expectedScore * c.stars > c.expectedScore * d.stars
                    \/ /\ d.expectedScore * c.stars = c.expectedScore * d.stars
                       /\ d.pos < c.pos
       /\ \A i \in 1..(Len(P) - 1) :
            P[i].expectedScore * P[i + 1].stars >= P[i + 1].expectedScore * P[i].stars

\* C9 witness: a bucket of more than 5 cards was cut, in a recomputing call.
C9_Witness ==
  /\ lastCall.valid /\ lastCall.solverCalled /\ ~lastCall.fast
  /\ \E v \in {c.stars : c \in Range(lastCall.scoredCards)} :
       Cardinality(OfStar(lastCall.scoredCards, v)) > TOP_PER_BUCKET
  /\ Len(lastCall.prunedCards) < Len(lastCall.scoredCards)

SameInputs(a, b) ==
  /\ a.pool = b.pool
  /\ a.history = b.history
  /\ a.config = b.config

\* C10: two calls of findBestDeck in a row on the same pool, history and
\* configuration give the same pruned list and the same selection.
C10_Idempotent ==
  (lastCall.valid /\ prevCall.valid /\ SameInputs(prevCall, lastCall)) =>
    /\ lastCall.prunedCards = prevCall.prunedCards
    /\ lastCall.result = prevCall.result

\* C10 witness: the second call took the cached list, the first computed it,
\* and a selection came out.
C10_Witness ==
  /\ lastCall.valid /\ prevCall.valid /\ SameInputs(prevCall, lastCall)
  /\ lastCall.fast /\ ~prevCall.fast
  /\ lastCall.result.found

\* The second of two equal calls computed the scores again.
C10_RecomputedTwice ==
  /\ lastCall.valid /\ prevCall.valid /\ SameInputs(prevCall, lastCall)
  /\ ~lastCall.fast /\ ~prevCall.fast
  /\ lastCall.result.found

\* The cards of a list all have one star or more.
StarsAtLeastOne(cs) == \A i \in DOMAIN cs : cs[i].stars >= 1

\* C11: every card of the scored list and of the pruned list handed to the
\* search has stars >= 1, whether it was scored by an override or from its
\* history; a card with stars <= 0 never reaches findOptimalCombination.
C11_StarsAtLeastOne ==
  lastCall.valid =>
    /\ StarsAtLeastOne(lastCall.scoredCards)
    /\ StarsAtLeastOne(lastCall.prunedCards)

\* C11 witness: a recomputing call on a pool holding a card of stars <= 0
\* whose hero has an override; the search was called on the rest.
C11_Witness ==
  /\ lastCall.valid /\ ~lastCall.fast /\ lastCall.solverCalled
  /\ \E i \in DOMAIN lastCall.pool :
       /\ lastCall.pool[i].stars <= 0
       /\ lastCall.pool[i].heroKey \in OverrideKeys(lastCall.config.scoreOverrides)

\* A recomputing call on a pool holding a card of negative stars scored from
\* its history.
C11_HistoryPath ==
  /\ lastCall.valid /\ ~lastCall.fast /\ lastCall.solverCalled
  /\ \E i \in DOMAIN lastCall.pool :
       /\ lastCall.pool[i].stars < 0
       /\ lastCall.pool[i].heroKey \notin OverrideKeys(lastCall.config.scoreOverrides)

C13_OverrideReplacesScore ==
  lastCall.valid =>
    \A i \in DOMAIN lastCall.scoredCards :
      \A j \in DOMAIN lastCall.config.scoreOverrides :
        LET c  == lastCall.scoredCards[i]
            ov == lastCall.config.scoreOverrides[j]
        IN (c.heroKey = ov[1] /\ c.heroKey # "0XMAKESY")
             => c.expectedScore = ov[2] * ScoreUnit

\* C13 witness: a recomputing call scored ALPHA by its override although the
\* algorithm gives another value on ALPHA's series.
C13_Witness ==
  /\ lastCall.valid /\ ~lastCall.fast
  /\ \E j \in DOMAIN lastCall.config.scoreOverrides :
       /\ lastCall.config.scoreOverrides[j][1] = ALPHA
       /\ ToUnits(calculateScore(lastCall.history, ALPHA, lastCall.config.algorithm))
            # lastCall.config.scoreOverrides[j][2] * ScoreUnit
  /\ \E i \in DOMAIN lastCall.scoredCards : lastCall.scoredCards[i].heroKey = ALPHA

\* The scored cards of 0XMAKESY in the call just made.
MakesyScored == {c \in Range(lastCall.scoredCards) : c.heroKey = MAKESY}

C14_FromHistory ==
  /\ lastCall.valid /\ buildResult.valid
  /\ MAKESY \notin OverrideKeys(lastCall.config.scoreOverrides)
  /\ \E c \in MakesyScored : c.stars = 2 /\ c.expectedScore > 0

RECURSIVE Pow(_, _)
Pow(b, e) == IF e = 0 THEN 1 ELSE b * Pow(b, e - 1)

\* S_t * 10^(t-1) by the recurrence S_1 = X_1, S_t = alpha X_t + (1 - alpha) S_(t-1),
\* in integers.
RECURSIVE SmoothedScaled(_, _)
SmoothedScaled(x, t) ==
  IF t = 1 THEN x[1]
  ELSE ALPHA_TENTHS * x[t] * Pow(10, t - 2) + (10 - ALPHA_TENTHS) * SmoothedScaled(x, t - 1)

\* The value of the recurrence over the whole series, as the estimators hold it.
SmoothedRef(x) == Rat(SmoothedScaled(x, Len(x)), Pow(10, Len(x) - 1))

HasSeries == ALPHA \in DOMAIN historicalData

Series == IF HasSeries THEN historicalData[ALPHA] ELSE <<>>

\* The estimates made so far (content script, background.js).
Estimates ==
  {e \in {estimate.content, estimate.background} : e.done}

\* C15: exponentialSmoothing with alpha 0.3 returns the last S_t of
\* S_1 = X_1, S_t = 0.3 X_t + 0.7 S_(t-1) over every observation in order;
\* [10] gives 10 and [10, 20] gives 13.
C15_SmoothingRecurrence ==
  (algorithmId = "exponentialSmoothing" /\ Len(Series) > 0) =>
    \A e \in Estimates :
      /\ e.value = SmoothedRef(Series)
      /\ Series = <<10>> => RatEq(e.value, Rat(10, 1))
      /\ Series = <<10, 20>> => RatEq(e.value, Rat(13, 1))

\* C15 witness: both estimators smoothed the series [10, 20].
C15_Witness ==
  /\ algorithmId = "exponentialSmoothing"
  /\ Series = <<10, 20>>
  /\ estimate.content.done /\ estimate.background.done

\* The series of n observations that is 1 at observation i and 0 elsewhere.
UnitSeries(n, i) == [t \in 1..n |-> IF t = i THEN 1 ELSE 0]

\* The weight of observation i in the smoothed value of a series of n
\* observations, in units of 10^-(n-1).
WeightOf(n, i) == exponentialSmoothing(UnitSeries(n, i), ALPHA_TENTHS).n

\* C16: the smoothed value is the weighted sum of the observations, and the
\* weight of an observation never increases with its age: the weight of
\* observation i+1 is at most the weight of observation i.
C16_WeightsDecayWithAge ==
  (algorithmId = "exponentialSmoothing" /\ Len(Series) > 0 /\ estimate.content.done) =>
    LET n == Len(Series) IN
      /\ estimate.content.value.n = SumSeq([i \in 1..n |-> WeightOf(n, i) * Series[i]])
      /\ \A i \in 1..(n - 1) : WeightOf(n, i + 1) <= WeightOf(n, i)

\* The first N observations the two exclude-one algorithms work on.
ExcludeWindow ==
  SliceTo(Series, IF algorithmId = "recent6exclude1" THEN RECENT_LONG ELSE RECENT_SHORT)

\* C17: recent6exclude1 and recent4exclude1 return the mean of the first N
\* observations without one value, the highest; with at most one observation
\* they return the plain mean of what there is.
C17_ExcludeHighest ==
  (algorithmId \in {"recent6exclude1", "recent4exclude1"} /\ HasSeries) =>
    \A e \in Estimates :
      LET w == ExcludeWindow IN
        IF Len(w) = 0 THEN e.value.n = 0
        ELSE IF Len(w) = 1 THEN RatEq(e.value, Rat(w[1], 1))
        ELSE RatEq(e.value, Rat(SumSeq(w) - MaxOf(Range(w)), Len(w) - 1))

\* C18: on a non-empty series of non-negative integers every algorithm id,
\* known or not, gives a value that is at least 0 and at most the largest
\* observation.
C18_ScoreWithinRange ==
  Len(Series) > 0 =>
    \A e \in Estimates :
      /\ e.value.d > 0
      /\ e.value.n >= 0
      /\ e.value.n <= MaxOf(Range(Series)) * e.value.d

\* C18 witness: both estimators ran the weighted algorithm on six observations
\* that are not all equal.
C18_Witness ==
  /\ algorithmId = "weighted"
  /\ Len(Series) = 6 /\ Cardinality(Range(Series)) > 1
  /\ estimate.content.done /\ estimate.background.done

\* C19: with no series or an empty one every algorithm id gives 0; an id
\* that is not known gives, on a non-empty series, the value of exponential
\* smoothing with alpha 0.3.
C19_EmptyAndUnknown ==
  \A e \in Estimates :
    /\ Len(Series) = 0 => e.value.n = 0
    /\ (Len(Series) > 0 /\ algorithmId = "unknownAlgorithm") => e.value = SmoothedRef(Series)

\* C19 witness: the content script scored an unknown id on a series on which
\* smoothing and the plain average differ.
C19_Witness ==
  /\ algorithmId = "unknownAlgorithm"
  /\ estimate.content.done
  /\ Len(Series) >= 2
  /\ ~RatEq(SmoothedRef(Series), averageScore(Series))

\* The content script scored a hero that has no entry in the history.
C19_NoSeries ==
  /\ ~HasSeries
  /\ estimate.content.done

\* The pool of the call just made holds no card that can be scored: it is
\* empty or all its cards have stars <= 0.
NothingToScore == \A i \in DOMAIN lastCall.pool : lastCall.pool[i].stars <= 0

\* C20: on an empty pool, or one whose cards are all rejected, findBestDeck
\* returns null without calling the search, and buildDeck resolves to
\* {success: false, error: 'Could not find valid combination'}.
C20_EmptyPoolFails ==
  (lastCall.valid /\ NothingToScore) =>
    /\ ~lastCall.solverCalled
    /\ ~lastCall.result.found
    /\ buildResult.valid
    /\ ~buildResult.success
    /\ buildResult.error = NO_COMBINATION

\* C20 witness: a build on a pool whose only cards have stars <= 0.
C20_Witness ==
  /\ lastCall.valid /\ buildResult.valid
  /\ Len(lastCall.pool) > 0
  /\ NothingToScore

\* A build on an empty pool.
C20_EmptyPool ==
  /\ lastCall.valid /\ buildResult.valid
  /\ Len(lastCall.pool) = 0

(* ----------------------- the search, step by step ---------------------- *)
\* What solve(index, remainingStars, remainingCards) returned during this
\* invocation, read off the base cases, the bound and the memo map.
MemoLookup(index, remainingStars, remainingCards) ==
  IF remainingCards = 0 /\ remainingStars = 0 THEN Found(<<>>, 0)
  ELSE IF remainingCards = 0 \/ index >= Len(cards) \/ remainingStars < 0 THEN NoResult
  ELSE IF Pruned(SortedStarsFromIndex(cards, index), remainingStars, remainingCards)
  THEN NoResult
  ELSE IF <<index, remainingStars, remainingCards>> \in DOMAIN memo
  THEN memo[<<index, remainingStars, remainingCards>>]
  ELSE NoResult

\* The two branches at the state key = <<index, remainingStars, remainingCards>>.
IncludeBranch(key) ==
  LET card == cards[key[1] + 1]
      sub == MemoLookup(key[1] + 1, key[2] - card.stars, key[3] - 1)
  IN IF card.stars <= key[2] /\ card.cardId # 0 /\ sub.found
     THEN Found(<<key[1] + 1>> \o sub.selection, card.expectedScore + sub.totalScore)
     ELSE NoResult

SkipBranch(key) == MemoLookup(key[1] + 1, key[2], key[3])

\* C22: at every state the search returns the branch with the higher total
\* score, on equal scores the include branch (the skip branch replaces it only
\* on a strict improvement), and the value returned is the one a second run on
\* the same ordered list, target and count returns, selection order included.
C22_Deterministic ==
  /\ \A key \in DOMAIN memo :
       LET inc == IncludeBranch(key)
           skip == SkipBranch(key)
       IN /\ (inc.found /\ skip.found /\ skip.totalScore > inc.totalScore)
               => memo[key] = skip
          /\ (inc.found /\ skip.found /\ skip.totalScore <= inc.totalScore)
               => memo[key] = inc
          /\ (inc.found /\ ~skip.found) => memo[key] = inc
          /\ (~inc.found /\ skip.found) => memo[key] = skip
          /\ (~inc.found /\ ~skip.found) => memo[key] = NoResult
  /\ Returned => result = findOptimalCombination(cards, targetStars, targetCount)

\* C22 witness: the search has returned and at some state both branches had a
\* solution of the same total score with different cards.
C22_Witness ==
  /\ Returned
  /\ \E key \in DOMAIN memo :
       /\ IncludeBranch(key).found /\ SkipBranch(key).found
       /\ IncludeBranch(key).totalScore = SkipBranch(key).totalScore
       /\ IncludeBranch(key).selection # SkipBranch(key).selection
       /\ memo[key] = IncludeBranch(key)

\* The recursion of solve with the min/max bound check (and the memo map,
\* which only stores its values) left out.
RECURSIVE solveUnbounded(_, _, _, _)
solveUnbounded(cs, index, remainingStars, remainingCards) ==
  IF remainingCards = 0 /\ remainingStars = 0 THEN Found(<<>>, 0)
  ELSE IF remainingCards = 0 \/ index >= Len(cs) \/ remainingStars < 0 THEN NoResult
  ELSE
    LET card == cs[index + 1]
        sub  == IF CanInclude(card, remainingStars)
                THEN solveUnbounded(cs, index + 1, remainingStars - card.stars,
                                    remainingCards - 1)
                ELSE NoResult
        best == IF sub.found
                THEN Found(<<index + 1>> \o sub.selection,
                           card.expectedScore + sub.totalScore)
                ELSE NoResult
        skip == solveUnbounded(cs, index + 1, remainingStars, remainingCards)
    IN IF SkipWins(skip, best) THEN skip ELSE best

SameOutcome(r, u) == r.found = u.found /\ (r.found => r.totalScore = u.totalScore)

\* The bound check rejects this state although the base cases do not.
BoundRejects(index, remainingStars, remainingCards) ==
  /\ index < Len(cards)
  /\ remainingCards > 0
  /\ remainingStars >= 0
  /\ Pruned(SortedStarsFromIndex(cards, index), remainingStars, remainingCards)

\* C23: the feasibility bound is sound: every value solve has computed, and
\* every top-level call, has the outcome (null, or the same total score) of
\* the recursion without the bound check, and no state the bound rejects has
\* an exact solution.
C23_BoundSound ==
  /\ \A key \in DOMAIN memo :
       SameOutcome(memo[key], solveUnbounded(cards, key[1], key[2], key[3]))
  /\ \A i \in 1..Len(tried) :
       tried[i].found = solveUnbounded(cards, 0, tried[i].target, targetCount).found
  /\ \A index \in 0..(Len(cards) - 1), s \in 0..targetStars, k \in 1..targetCount :
       BoundRejects(index, s, k) => ~solveUnbounded(cards, index, s, k).found

\* C23 witness: an exact solution was found by a search in which the bound
\* cut a branch that had enough cards left and enough stars to spend (the
\* maximum of the suffix was too small).
C23_Witness ==
  /\ Returned /\ Len(tried) = 1 /\ tried[1].found
  /\ \E key \in DOMAIN memo :
       /\ BoundRejects(key[1] + 1, key[2], key[3])
       /\ key[3] <= Len(cards) - key[1] - 1
       /\ key[2] > MaxPossible(SortedStarsFromIndex(cards, key[1] + 1), key[3])

\* The top-level state of an attempt is one solve stores in the memo map.
Stored(target) ==
  /\ targetCount > 0
  /\ ~Pruned(SortedStarsFromIndex(cards, 0), target, targetCount)

\* C24: the memo map is empty when findOptimalCombination starts, the exact
\* and the relaxed attempts work on the same map (the entries of an earlier
\* attempt are still there after a later one), and every value in it, like
\* the value each attempt returned, equals what solve computes from an empty
\* map.
C24_MemoTransparent ==
  /\ pc = "solve" => memo = EmptyMemo
  /\ \A key \in DOMAIN memo :
       memo[key] = solve(cards, EmptyMemo, key[1], key[2], key[3]).res
  /\ \A i \in 1..Len(tried) :
       Stored(tried[i].target) => <<0, tried[i].target, targetCount>> \in DOMAIN memo
  /\ (pc \in {"relax", "cap"} /\ Len(tried) > 0) =>
       result = solve(cards, EmptyMemo, 0, tried[Len(tried)].target, targetCount).res

\* C24 witness: a relaxed attempt found a solution on the map the exact
\* attempt had filled, and the entries of both are in it.
C24_Witness ==
  /\ pc = "cap" /\ Len(tried) >= 2 /\ result.found
  /\ Stored(tried[1].target)
  /\ <<0, tried[1].target, targetCount>> \in DOMAIN memo
  /\ <<0, tried[Len(tried)].target, targetCount>> \in DOMAIN memo

\* C27: findOptimalCombination returns null only if no combination of
\* exactly targetCount distinct candidates has total stars at most the target.
C27_NullOnlyIfInfeasible ==
  (Returned /\ ~result.found) =>
    \A S \in KSubsets(cards, targetCount) : SetStars(cards, S) > targetStars

\* The same on the lists whose cards all carry a card id.
C27_WithCardIds ==
  (\A p \in DOMAIN cards : HasCardId(cards[p])) => C27_NullOnlyIfInfeasible

\* Two estimates are the same number.
SameValue(a, b) == IF a.d = b.d THEN a.n = b.n ELSE RatEq(a, b)

\* C28: for every algorithm id and every series, of length 1 too,
\* calculateScore of background.js returns the value calculateScore of the
\* content script returns on that series.
C28_EstimatorsAgree ==
  (HasSeries /\ estimate.content.done /\ estimate.background.done) =>
    SameValue(estimate.content.value, estimate.background.value)

\* The same on the series of two or more observations.
C28_LongerSeries ==
  Len(Series) >= 2 => C28_EstimatorsAgree

\* The total scores of the k-card subsets of a list whose stars sum to t.
ExactScores(cs, t, k) == {SetScore(cs, S) : S \in ExactSubsets(cs, t, k)}

\* C29: with a target count of at most 5, the cap per bucket, the k-card
\* subsets with stars summing to exactly the target have the same maximum
\* total score over the pruned list as over the whole scored pool (and exist
\* in the one when they exist in the other).
C29_PruningKeepsOptimum ==
  (lastCall.valid /\ lastCall.solverCalled
     /\ TargetCountOf(lastCall.config) <= TOP_PER_BUCKET) =>
    LET full == ExactScores(lastCall.scoredCards, TargetStarsOf(lastCall.config),
                            TargetCountOf(lastCall.config))
        kept == ExactScores(lastCall.prunedCards, TargetStarsOf(lastCall.config),
                            TargetCountOf(lastCall.config))
    IN /\ (full = {}) = (kept = {})
       /\ full # {} => MaxOf(full) = MaxOf(kept)

\* C29 witness: the pruning cut a bucket of more than 5 cards and the scored
\* pool has subsets of the target count with exactly the target stars.
C29_Witness ==
  /\ lastCall.valid /\ lastCall.solverCalled
  /\ TargetCountOf(lastCall.config) <= TOP_PER_BUCKET
  /\ Len(lastCall.prunedCards) < Len(lastCall.scoredCards)
  /\ ExactScores(lastCall.scoredCards, TargetStarsOf(lastCall.config),
                 TargetCountOf(lastCall.config)) # {}

\* C26: once the user has removed the 0XMAKESY override in the popup
\* (removedDefaultMakesy stored, no 0XMAKESY key in scoreOverrides), every
\* deck build, from the popup or from the injected button, scores 0XMAKESY
\* from its history like any other hero.
C26_RemovedMakesyFromHistory ==
  (lastCall.valid /\ buildResult.valid /\ lastCall.removedDefaultMakesy) =>
    \A c \in MakesyScored :
      c.expectedScore =
        ToUnits(calculateScore(lastCall.history, MAKESY, lastCall.config.algorithm))

\* The same for the builds the popup starts (configuration passed).
C26_FromPopup ==
  (lastCall.valid /\ buildResult.valid /\ ~lastCall.fromStorage)
    => C26_RemovedMakesyFromHistory

\* A build from the popup after the removal that scored a 0XMAKESY card.
C26_PopupBuildAfterRemoval ==
  /\ lastCall.valid /\ buildResult.valid
  /\ lastCall.removedDefaultMakesy /\ ~lastCall.fromStorage
  /\ MakesyScored # {}

\* C21: under every interleaving of the handlers no handler steps between
\* the start and the end of a findBestDeck call: the thread is with the
\* calling handler throughout, and this.cards, this.historicalData, the score
\* cache and the sorted-cards cache are at the end of the call what they were
\* at its start.
C21_NoStepDuringCall ==
  /\ ~intruded
  /\ \A h \in BuildHandlers :
       handlers[h].pc = "search" => (running = h /\ handlers[h].seen = View)
  /\ lastCall.valid => lastCall.start = lastCall.atEnd

\* C21 witness: a findBestDeck call has ended while the three other handlers
\* were each waiting at an await, started and not finished.
C21_Witness ==
  /\ lastCall.valid
  /\ \A g \in HandlerIds \ {lastCall.by} : handlers[g].pc \notin {"idle", "done"}

\* C25: in every buildDeck the score cache is empty and sortedCardsCache and
\* lastConfigHash are null when findBestDeck starts, and the deck is the one
\* findBestDeck gives on the pool, history and configuration of the call from
\* empty caches, whatever earlier builds left behind.
C25_CachesClearedAtStart ==
  lastCall.valid =>
    /\ lastCall.start.scoreCache = EmptyScoreCache
    /\ lastCall.start.sortedCardsCache = NullCache
    /\ lastCall.start.lastConfigHash = NullHash
    /\ lastCall.result =
         findBestDeck(lastCall.pool, lastCall.history, EmptyScoreCache, NullCache,
                      NullHash, lastCall.config).result

\* C25 witness: the build found a deck after an earlier build had left a
\* score cache, a sorted list and a configuration hash behind.
C25_Witness ==
  /\ lastCall.valid /\ lastCall.result.found
  /\ lastCall.before.scoreCache # EmptyScoreCache
  /\ ~lastCall.before.sortedCardsCache.isNull
  /\ ~lastCall.before.lastConfigHash.isNull

\* C30: however the runs of checkAndInject interleave, at most one element
\* with id fantasy-custom-wand is ever inserted, and it is inserted only when
\* the address is whitelisted and the page is a deck-builder page.
C30_OneButtonOnDeckBuilder ==
  /\ Len(insertions) <= 1
  /\ \A i \in DOMAIN insertions :
       insertions[i].whitelisted /\ insertions[i].page = DECKBUILDER

\* At most one element is ever inserted, and only when isWhitelisted holds.
C30_AtMostOneWhitelisted ==
  /\ Len(insertions) <= 1
  /\ \A i \in DOMAIN insertions : insertions[i].whitelisted

\* The button has been inserted on the deck builder while other runs were
\* waiting for isWhitelisted.
C30_InsertedOnce ==
  /\ Len(insertions) = 1 /\ insertions[1].page = DECKBUILDER
  /\ \E r \in 1..MaxRuns : runs[r].pc \in {"awaitList", "awaitPre"}

====
